---- MODULE Spec2Model ----
(***************************************************************************)
(* A model of the nes_rs emulator core: the 6502 CPU (src/src/cpu), the    *)
(* bus / memory map (src/src/bus/mod.rs) and the PPU (src/src/ppu).        *)
(*                                                                         *)
(* The Rust code is sequential: one CPU loop iteration calls into the bus, *)
(* which calls into the PPU.  The model therefore works on a record `s`    *)
(* holding every field of CPU, Bus and PPU; each Rust method is an         *)
(* operator from records to records, and an action commits the record an   *)
(* entire handler leaves behind.                                           *)
(***************************************************************************)
EXTENDS Integers, Sequences, FiniteSets, TLC

\* ------------------------------------------------------------------ bits

RECURSIVE BitAnd(_, _)
BitAnd(a, b) ==
    IF a = 0 \/ b = 0 THEN 0
    ELSE (a % 2) * (b % 2) + 2 * BitAnd(a \div 2, b \div 2)

RECURSIVE BitOr(_, _)
BitOr(a, b) ==
    IF a = 0 THEN b
    ELSE IF b = 0 THEN a
    ELSE (IF (a % 2) + (b % 2) > 0 THEN 1 ELSE 0) + 2 * BitOr(a \div 2, b \div 2)

RECURSIVE BitXor(_, _)
BitXor(a, b) ==
    IF a = 0 THEN b
    ELSE IF b = 0 THEN a
    ELSE ((a + b) % 2) + 2 * BitXor(a \div 2, b \div 2)

\* flags.contains(mask) for a single-bit mask
Contains(bits, mask) == (bits \div mask) % 2 = 1

\* flags.set(mask, value) for a single-bit mask
SetBit(bits, mask, value) ==
    IF value
    THEN (IF Contains(bits, mask) THEN bits ELSE bits + mask)
    ELSE (IF Contains(bits, mask) THEN bits - mask ELSE bits)

\* u8 / u16 wrapping arithmetic
Wrap8(v) == v % 256
Wrap16(v) == v % 65536

\* `b as i8 as u16`: sign extension of a byte to 16 bits
SignExtend(b) == IF b >= 128 THEN b + 65280 ELSE b

\* ------------------------------------------- zero-initialised byte arrays
\* An array is kept as the function of its non-zero cells.

ArrGet(arr, i) == IF i \in DOMAIN arr THEN arr[i] ELSE 0

ArrSet(arr, i, v) ==
    IF v = 0
    THEN [j \in (DOMAIN arr) \ {i} |-> arr[j]]
    ELSE [j \in (DOMAIN arr) \cup {i} |-> IF j = i THEN v ELSE arr[j]]

EmptyArr == [j \in {} |-> 0]

\* ------------------------------------------------------------- constants

\* CPUFlags (src/src/cpu/mod.rs)
CARRY == 1
ZERO == 2
INTERRUPT_DISABLE == 4
DECIMAL_MODE == 8
BREAK == 16
BREAK2 == 32
OVERFLOW == 64
NEGATIVE == 128

NMI_VECTOR == 65530
RESET_VECTOR == 65532
STACK == 256
STACK_RESET == 253
STATUS_RESET == 36
NMI_ENTRY_CYCLES == 2

\* Bus memory map (src/src/bus/mod.rs)
WRAM_START == 0
WRAM_END == 8191
PPU_MIRRORS_START == 8200
PPU_MIRRORS_END == 16383
PRG_RAM_START == 24576
PRG_RAM_END == 32767
PRG_ROM_START == 32768
PRG_ROM_END == 65535
BUS_CYCLES_INIT == 7
PPU_PER_CPU == 3

\* PPU (src/src/ppu/mod.rs)
GENERATE_NMI == 128
VRAM_ADD_INCREMENT == 4
SPRITE_ZERO_HIT == 64
VBLANK_STARTED == 128
SCANLINE_CYCLES == 341
VBLANK_SCANLINE == 241
FRAME_SCANLINES == 262
PPU_CYCLES_INIT == 21
PALETTE_TABLE_SIZE == 32
VRAM_SIZE == 2048
NAMETABLE_SIZE == 1024

\* ------------------------------------------------------------- variables

VARIABLES
    \* CPU
    register_a, register_x, register_y, status, program_counter, stack_pointer,
    \* Bus
    cpu_wram, prg_ram, prg_rom, prg_rom_len, bus_cycles,
    \* Joypad
    strobe, button_index, button_status,
    \* PPU
    chr_rom, chr_ram, has_chr_ram, vram, palette_table, oam_data, oam_addr,
    controller, ppu_mask, ppu_status, mirroring,
    addr_hi, addr_lo, write_latch,
    scroll_x, scroll_y, scroll_latch,
    internal_data_buffer,
    scanline, cycles, nmi_interrupt,
    \* the build profile: whether u16 `+` panics on overflow
    overflow_checks,
    \* control: which run loop the host entered, whether the loop has ended,
    \* and which operation acted last
    runner, halted, last,
    \* observation of the last loop iteration
    ticked, nmi_taken, nmi_entry, fetched, fetch_pc, branch_taken,
    \* history counters
    steps, frames, fed, raised, raised_tick, raised_off, dropped, entered,
    \* totals: CPU cycles passed to Bus::tick, the flag's rises inside
    \* PPU::tick, and the events Bus::tick handed to an observer
    cpu_ticks, rises, signalled,
    \* the last call the host made on the bus itself, and what it returned
    probe

vars == << register_a, register_x, register_y, status, program_counter, stack_pointer,
           cpu_wram, prg_ram, prg_rom, prg_rom_len, bus_cycles,
           strobe, button_index, button_status,
           chr_rom, chr_ram, has_chr_ram, vram, palette_table, oam_data, oam_addr,
           controller, ppu_mask, ppu_status, mirroring,
           addr_hi, addr_lo, write_latch,
           scroll_x, scroll_y, scroll_latch,
           internal_data_buffer,
           scanline, cycles, nmi_interrupt,
           overflow_checks,
           runner, halted, last,
           ticked, nmi_taken, nmi_entry, fetched, fetch_pc, branch_taken,
           steps, frames, fed, raised, raised_tick, raised_off, dropped, entered,
           cpu_ticks, rises, signalled, probe >>

\* The whole machine as one record.  `panic` is set by a Rust panic!, an
\* out-of-bounds index or a checked overflow; the process then ends.
St ==
    [ register_a |-> register_a, register_x |-> register_x, register_y |-> register_y,
      status |-> status, program_counter |-> program_counter,
      stack_pointer |-> stack_pointer,
      cpu_wram |-> cpu_wram, prg_ram |-> prg_ram, prg_rom |-> prg_rom,
      prg_rom_len |-> prg_rom_len, bus_cycles |-> bus_cycles,
      strobe |-> strobe, button_index |-> button_index, button_status |-> button_status,
      chr_rom |-> chr_rom, chr_ram |-> chr_ram, has_chr_ram |-> has_chr_ram,
      vram |-> vram, palette_table |-> palette_table,
      oam_data |-> oam_data, oam_addr |-> oam_addr,
      controller |-> controller, ppu_mask |-> ppu_mask, ppu_status |-> ppu_status,
      mirroring |-> mirroring,
      addr_hi |-> addr_hi, addr_lo |-> addr_lo, write_latch |-> write_latch,
      scroll_x |-> scroll_x, scroll_y |-> scroll_y, scroll_latch |-> scroll_latch,
      internal_data_buffer |-> internal_data_buffer,
      scanline |-> scanline, cycles |-> cycles, nmi_interrupt |-> nmi_interrupt,
      overflow_checks |-> overflow_checks,
      ticked |-> 0, branch_taken |-> FALSE,
      frames |-> frames, fed |-> fed, raised |-> raised,
      raised_tick |-> raised_tick, raised_off |-> raised_off,
      dropped |-> dropped, entered |-> entered,
      cpu_ticks |-> cpu_ticks, rises |-> rises, signalled |-> signalled,
      panic |-> FALSE ]

\* =================================================================== PPU

\* PPUADDR::get (src/src/ppu/registers/addr.rs)
PpuAddrGet(s) == s.addr_hi * 256 + s.addr_lo

\* PPUADDR::set
PpuAddrSet(s, data) ==
    [s EXCEPT !.addr_hi = data \div 256, !.addr_lo = data % 256]

\* the "mirror down" step shared by update and increment:
\* if self.get() > 0x3fff { self.set(self.get() & 0x4000) }
PpuAddrMirrorDown(s) ==
    IF PpuAddrGet(s) > 16383
    THEN PpuAddrSet(s, BitAnd(PpuAddrGet(s), 16384))
    ELSE s

\* PPUADDR::update
PpuAddrUpdate(s, data) ==
    LET s1 == IF s.write_latch THEN [s EXCEPT !.addr_hi = data]
                               ELSE [s EXCEPT !.addr_lo = data]
        s2 == PpuAddrMirrorDown(s1)
    IN [s2 EXCEPT !.write_latch = ~s.write_latch]

\* PPUADDR::increment
PpuAddrIncrement(s, step) ==
    PpuAddrMirrorDown(
        [s EXCEPT !.addr_lo = Wrap8(@ + step),
                  !.addr_hi = IF s.addr_lo > Wrap8(s.addr_lo + step)
                              THEN Wrap8(@ + 1) ELSE @])

\* PPU::increment_vram_addr
IncrementVramAddr(s) ==
    IF Contains(s.controller, VRAM_ADD_INCREMENT)
    THEN PpuAddrIncrement(s, 32)
    ELSE PpuAddrIncrement(s, 1)

\* PPUSCROLL::write
PpuScrollWrite(s, data) ==
    IF s.scroll_latch THEN [s EXCEPT !.scroll_y = data]
                      ELSE [s EXCEPT !.scroll_x = data]

\* PPU::mirror_vram_addr
MirrorVramAddr(s, addr) ==
    LET mirrored_vram == BitAnd(addr, 12287)
        vram_index == mirrored_vram - 8192
        name_table == vram_index \div NAMETABLE_SIZE
    IN CASE s.mirroring = "Vertical" /\ name_table \in {2, 3} ->
                vram_index - 2 * NAMETABLE_SIZE
         [] s.mirroring = "Horizontal" /\ name_table \in {1, 2} ->
                vram_index - NAMETABLE_SIZE
         [] s.mirroring = "Horizontal" /\ name_table = 3 ->
                vram_index - 2 * NAMETABLE_SIZE
         [] OTHER -> vram_index

\* The PPU raises its interrupt: nmi_interrupt = Some(1).  `raised` counts
\* the clear-to-set transitions of the flag within the current frame,
\* `raised_tick` those of them made by tick; `raised_off` records a
\* transition made while the controller's GENERATE_NMI bit was clear, and
\* `entered` restarts the count of CPU entries for the new raising.
\* (`dropped` records that the end of a frame cleared a flag still set.)
RaiseNmi(s, by_tick) ==
    IF s.nmi_interrupt THEN s
    ELSE [s EXCEPT !.nmi_interrupt = TRUE,
                   !.raised = @ + 1,
                   !.raised_tick = IF by_tick THEN @ + 1 ELSE @,
                   !.rises = IF by_tick THEN @ + 1 ELSE @,
                   !.raised_off = @ \/ ~Contains(s.controller, GENERATE_NMI),
                   !.entered = 0]

\* tick raising the interrupt whatever the control register says
PpuTickUnconditional(s, ppu_cycles) ==
    LET s0 == [s EXCEPT !.cycles = @ + ppu_cycles, !.fed = @ + ppu_cycles]
    IN IF s0.cycles >= SCANLINE_CYCLES
       THEN LET s1 == [s0 EXCEPT !.cycles = @ - SCANLINE_CYCLES,
                                 !.scanline = @ + 1]
                s2 == IF s1.scanline = VBLANK_SCANLINE
                      THEN RaiseNmi([s1 EXCEPT !.ppu_status =
                                        SetBit(@, VBLANK_STARTED, TRUE)], TRUE)
                      ELSE s1
            IN IF s2.scanline >= FRAME_SCANLINES
               THEN [s2 EXCEPT !.scanline = 0,
                               !.ppu_status = SetBit(SetBit(@, SPRITE_ZERO_HIT, FALSE),
                                                     VBLANK_STARTED, FALSE),
                               !.nmi_interrupt = FALSE,
                               !.dropped = @ \/ s2.nmi_interrupt,
                               !.frames = @ + 1,
                               !.raised = 0, !.raised_tick = 0]
               ELSE s2
       ELSE s0

\* tick leaving the vblank bit set at the end of the frame
PpuTickKeepsVblank(s, ppu_cycles) ==
    LET s0 == [s EXCEPT !.cycles = @ + ppu_cycles, !.fed = @ + ppu_cycles]
    IN IF s0.cycles >= SCANLINE_CYCLES
       THEN LET s1 == [s0 EXCEPT !.cycles = @ - SCANLINE_CYCLES,
                                 !.scanline = @ + 1]
                s2 == IF s1.scanline = VBLANK_SCANLINE
                      THEN LET v == [s1 EXCEPT !.ppu_status =
                                         SetBit(@, VBLANK_STARTED, TRUE)]
                           IN IF Contains(v.controller, GENERATE_NMI)
                              THEN RaiseNmi(v, TRUE) ELSE v
                      ELSE s1
            IN IF s2.scanline >= FRAME_SCANLINES
               THEN [s2 EXCEPT !.scanline = 0,
                               !.nmi_interrupt = FALSE,
                               !.dropped = @ \/ s2.nmi_interrupt,
                               !.frames = @ + 1,
                               !.raised = 0, !.raised_tick = 0]
               ELSE s2
       ELSE s0

\* tick restarting the frame one scanline late: `self.scanline > 262`
PpuTickLateWrap(s, ppu_cycles) ==
    LET s0 == [s EXCEPT !.cycles = @ + ppu_cycles, !.fed = @ + ppu_cycles]
    IN IF s0.cycles >= SCANLINE_CYCLES
       THEN LET s1 == [s0 EXCEPT !.cycles = @ - SCANLINE_CYCLES,
                                 !.scanline = @ + 1]
                s2 == IF s1.scanline = VBLANK_SCANLINE
                      THEN LET v == [s1 EXCEPT !.ppu_status =
                                         SetBit(@, VBLANK_STARTED, TRUE)]
                           IN IF Contains(v.controller, GENERATE_NMI)
                              THEN RaiseNmi(v, TRUE) ELSE v
                      ELSE s1
            IN IF s2.scanline > FRAME_SCANLINES
               THEN [s2 EXCEPT !.scanline = 0,
                               !.ppu_status = SetBit(SetBit(@, SPRITE_ZERO_HIT, FALSE),
                                                     VBLANK_STARTED, FALSE),
                               !.nmi_interrupt = FALSE,
                               !.dropped = @ \/ s2.nmi_interrupt,
                               !.frames = @ + 1,
                               !.raised = 0, !.raised_tick = 0]
               ELSE s2
       ELSE s0

\* PPU::tick
PpuTick(s, ppu_cycles) ==
    LET s0 == [s EXCEPT !.cycles = @ + ppu_cycles, !.fed = @ + ppu_cycles]
    IN IF s0.cycles >= SCANLINE_CYCLES
       THEN LET s1 == [s0 EXCEPT !.cycles = @ - SCANLINE_CYCLES,
                                 !.scanline = @ + 1]
                s2 == IF s1.scanline = VBLANK_SCANLINE
                      THEN LET v == [s1 EXCEPT !.ppu_status =
                                         SetBit(@, VBLANK_STARTED, TRUE)]
                           IN IF Contains(v.controller, GENERATE_NMI)
                              THEN RaiseNmi(v, TRUE) ELSE v
                      ELSE s1
            IN IF s2.scanline >= FRAME_SCANLINES
               THEN [s2 EXCEPT !.scanline = 0,
                               !.ppu_status = SetBit(SetBit(@, SPRITE_ZERO_HIT, FALSE),
                                                     VBLANK_STARTED, FALSE),
                               !.nmi_interrupt = FALSE,
                               !.dropped = @ \/ s2.nmi_interrupt,
                               !.frames = @ + 1,
                               !.raised = 0, !.raised_tick = 0]
               ELSE s2
       ELSE s0

\* PPU::write_to_controller raising on the level of the NMI-enable bit
WriteToControllerLevel(s, value) ==
    LET s1 == [s EXCEPT !.controller = value]
    IN IF Contains(s1.controller, GENERATE_NMI)
          /\ Contains(s1.ppu_status, VBLANK_STARTED)
       THEN RaiseNmi(s1, FALSE)
       ELSE s1

\* PPU::write_to_controller
WriteToController(s, value) ==
    LET before_nmi_status == Contains(s.controller, GENERATE_NMI)
        s1 == [s EXCEPT !.controller = value]
    IN IF ~before_nmi_status /\ Contains(s1.controller, GENERATE_NMI)
          /\ Contains(s1.ppu_status, VBLANK_STARTED)
       THEN RaiseNmi(s1, FALSE)
       ELSE s1

\* PPU::write_to_mask
WriteToMask(s, value) == [s EXCEPT !.ppu_mask = value]

\* PPU::write_to_oam_addr
WriteToOamAddr(s, value) == [s EXCEPT !.oam_addr = value]

\* PPU::write_to_oam_data
WriteToOamData(s, value) ==
    [s EXCEPT !.oam_data = ArrSet(@, s.oam_addr, value),
              !.oam_addr = Wrap8(@ + 1)]

\* PPU::write_oam_dma storing from index 0 whatever OAMADDR is
WriteOamDmaFromZero(s, buffer) ==
    [s EXCEPT !.oam_data = [j \in {k \in 0..255 : buffer[k] # 0} |-> buffer[j]]]

\* PPU::write_oam_dma; `buffer` is a function on 0..255
WriteOamDma(s, buffer) ==
    LET cell(j) == buffer[(j - s.oam_addr) % 256]
    IN [s EXCEPT !.oam_data = [j \in {k \in 0..255 : cell(k) # 0} |-> cell(j)]]

\* PPU::read_status leaving the vblank bit as it was
ReadStatusKeepsVblank(s) ==
    [s EXCEPT !.write_latch = TRUE,
              !.scroll_latch = FALSE]

\* PPU::read_status: the state it leaves (the byte returned is s.ppu_status)
ReadStatus(s) ==
    [s EXCEPT !.ppu_status = SetBit(@, VBLANK_STARTED, FALSE),
              !.write_latch = TRUE,
              !.scroll_latch = FALSE]

PaletteMirrors == {16144, 16148, 16152, 16156}

\* PPU::write_to_data with the four palette mirrors stored where addressed
WriteToDataAtUnaliased(s1, addr, value) ==
    CASE addr \in 0..8191 ->
            IF s1.has_chr_ram THEN [s1 EXCEPT !.chr_ram = ArrSet(@, addr, value)]
            ELSE s1
      [] addr \in 8192..12287 ->
            IF MirrorVramAddr(s1, addr) < VRAM_SIZE
            THEN [s1 EXCEPT !.vram = ArrSet(@, MirrorVramAddr(s1, addr), value)]
            ELSE [s1 EXCEPT !.panic = TRUE]
      [] addr \in 12288..16127 -> [s1 EXCEPT !.panic = TRUE]
      [] addr \in 16128..16383 ->
            IF addr - 16128 < PALETTE_TABLE_SIZE
            THEN [s1 EXCEPT !.palette_table = ArrSet(@, addr - 16128, value)]
            ELSE [s1 EXCEPT !.panic = TRUE]
      [] OTHER -> [s1 EXCEPT !.panic = TRUE]

\* the match of PPU::write_to_data on `addr`, the address before the
\* increment; `s1` is the PPU after increment_vram_addr
WriteToDataAt(s1, addr, value) ==
    CASE addr \in 0..8191 ->
            IF s1.has_chr_ram THEN [s1 EXCEPT !.chr_ram = ArrSet(@, addr, value)]
            ELSE s1
      [] addr \in 8192..12287 ->
            IF MirrorVramAddr(s1, addr) < VRAM_SIZE
            THEN [s1 EXCEPT !.vram = ArrSet(@, MirrorVramAddr(s1, addr), value)]
            ELSE [s1 EXCEPT !.panic = TRUE]
      [] addr \in 12288..16127 -> [s1 EXCEPT !.panic = TRUE]
      [] addr \in PaletteMirrors ->
            [s1 EXCEPT !.palette_table = ArrSet(@, addr - 16 - 16128, value)]
      [] addr \in (16128..16383) \ PaletteMirrors ->
            IF addr - 16128 < PALETTE_TABLE_SIZE
            THEN [s1 EXCEPT !.palette_table = ArrSet(@, addr - 16128, value)]
            ELSE [s1 EXCEPT !.panic = TRUE]
      [] OTHER -> [s1 EXCEPT !.panic = TRUE]

\* PPU::write_to_data
WriteToData(s, value) == WriteToDataAt(IncrementVramAddr(s), PpuAddrGet(s), value)

\* PPU::read_data returning the addressed byte with no buffer in between
ReadDataValUnbuffered(s) ==
    LET addr == PpuAddrGet(s)
    IN CASE addr \in 0..8191 ->
                IF s.has_chr_ram THEN ArrGet(s.chr_ram, addr)
                ELSE ArrGet(s.chr_rom, addr)
         [] addr \in 8192..12287 -> ArrGet(s.vram, MirrorVramAddr(s, addr))
         [] addr \in PaletteMirrors -> ArrGet(s.palette_table, addr - 16 - 16128)
         [] addr \in (16128..16383) \ PaletteMirrors ->
                ArrGet(s.palette_table, addr - 16128)
         [] OTHER -> 0

\* PPU::read_data: the byte returned
ReadDataVal(s) ==
    LET addr == PpuAddrGet(s)
    IN CASE addr \in 0..12287 -> s.internal_data_buffer
         [] addr \in PaletteMirrors -> ArrGet(s.palette_table, addr - 16 - 16128)
         [] addr \in (16128..16383) \ PaletteMirrors ->
                ArrGet(s.palette_table, addr - 16128)
         [] OTHER -> 0

\* the match of PPU::read_data on `addr`, the address before the
\* increment: the state it leaves; `s1` is the PPU after increment_vram_addr
ReadDataAt(s1, addr) ==
    CASE addr \in 0..8191 ->
            IF s1.has_chr_ram
            THEN [s1 EXCEPT !.internal_data_buffer = ArrGet(s1.chr_ram, addr)]
            ELSE [s1 EXCEPT !.internal_data_buffer = ArrGet(s1.chr_rom, addr)]
      [] addr \in 8192..12287 ->
            IF MirrorVramAddr(s1, addr) < VRAM_SIZE
            THEN [s1 EXCEPT !.internal_data_buffer =
                                ArrGet(s1.vram, MirrorVramAddr(s1, addr))]
            ELSE [s1 EXCEPT !.panic = TRUE]
      [] addr \in 12288..16127 -> [s1 EXCEPT !.panic = TRUE]
      [] addr \in PaletteMirrors -> s1
      [] addr \in (16128..16383) \ PaletteMirrors ->
            IF addr - 16128 < PALETTE_TABLE_SIZE THEN s1
            ELSE [s1 EXCEPT !.panic = TRUE]
      [] OTHER -> [s1 EXCEPT !.panic = TRUE]

\* PPU::read_data: the state it leaves
ReadDataSt(s) == ReadDataAt(IncrementVramAddr(s), PpuAddrGet(s))

\* ================================================================ Joypad

\* JoypadButton (src/src/joypad/mod.rs)
BUTTON_A == 1
START == 8
RIGHT == 128

\* Joypad::write leaving the cursor where it is
JoypadWriteKeepsIndex(s, data) ==
    [s EXCEPT !.strobe = (data % 2 = 1)]

\* Joypad::write (src/src/joypad/mod.rs)
JoypadWrite(s, data) ==
    LET st == (data % 2 = 1)
    IN [s EXCEPT !.strobe = st, !.button_index = IF st THEN 0 ELSE @]

\* Joypad::read shifting the buttons out from bit 7 down
JoypadReadValFromRight(s) ==
    IF s.button_index > 7 THEN 1
    ELSE (s.button_status \div (2 ^ (7 - s.button_index))) % 2

\* Joypad::read: the byte returned
JoypadReadVal(s) ==
    IF s.button_index > 7 THEN 1
    ELSE (s.button_status \div (2 ^ s.button_index)) % 2

\* Joypad::read: the state it leaves
JoypadReadSt(s) ==
    IF s.button_index > 7 THEN s
    ELSE IF ~s.strobe THEN [s EXCEPT !.button_index = @ + 1] ELSE s

\* =================================================================== Bus

\* a bus that forwards one PPU cycle per CPU cycle
TickOneToOne(s, n) ==
    [PpuTick(s, n) EXCEPT !.ticked = @ + n, !.cpu_ticks = @ + n]

\* Bus::tick: forwards cycles * 3 to the PPU, and nothing else.  The cycle
\* counter is not advanced (`self.cycles += cycles` is commented out), the
\* bool PPU::tick returns is dropped and no observer is called, so
\* bus_cycles and signalled stay as they are.
Tick(s, n) ==
    [PpuTick(s, n * PPU_PER_CPU) EXCEPT !.ticked = @ + n, !.cpu_ticks = @ + n]

\* the PPU_MIRRORS arm of mem_read / mem_write: addr & 0b00100000_00000111
MirrorDown(addr) ==
    IF addr \in PPU_MIRRORS_START..PPU_MIRRORS_END
    THEN BitAnd(addr, 8199)
    ELSE addr

\* Bus::read_prg_rom: the index into prg_rom
PrgRomIndex(s, addr) ==
    LET a == addr - PRG_ROM_START
    IN IF s.prg_rom_len = 16384 /\ a >= 16384 THEN a % 16384 ELSE a

WriteOnlyRegisters == {8192, 8193, 8195, 8197, 8198, 16404}

\* the working-RAM arms without the mirror: the address itself as index
WramIndexUnmirrored(addr) == addr

\* the working-RAM arms: `addr & 0b111_1111_1111`, the last 11 bits
WramIndex(addr) == BitAnd(addr, 2047)

\* the match of Bus::mem_read on `addr`: the byte returned.
\* `addr` is the address after the PPU-mirror arm has mirrored it down
MemReadArm(s, addr) ==
    CASE addr \in WRAM_START..WRAM_END -> ArrGet(s.cpu_wram, WramIndex(addr))
      [] addr \in WriteOnlyRegisters -> 0
      [] addr = 8194 -> s.ppu_status
      [] addr = 8196 -> ArrGet(s.oam_data, s.oam_addr)
      [] addr = 8199 -> ReadDataVal(s)
      [] addr = 16406 -> JoypadReadVal(s)
      [] addr \in PRG_RAM_START..PRG_RAM_END ->
            ArrGet(s.prg_ram, addr - PRG_RAM_START)
      [] addr \in PRG_ROM_START..PRG_ROM_END ->
            ArrGet(s.prg_rom, PrgRomIndex(s, addr))
      [] OTHER -> 0

\* Bus::mem_read: the byte returned
MemReadVal(s, addr) == MemReadArm(s, MirrorDown(addr))

\* the match of Bus::mem_read on the mirrored-down `addr`: the state it leaves
MemReadArmSt(s, addr) ==
    CASE addr \in WriteOnlyRegisters -> [s EXCEPT !.panic = TRUE]
      [] addr = 8194 -> ReadStatus(s)
      [] addr = 8199 -> ReadDataSt(s)
      [] addr = 16406 -> JoypadReadSt(s)
      [] addr \in PRG_ROM_START..PRG_ROM_END ->
            IF PrgRomIndex(s, addr) < s.prg_rom_len THEN s
            ELSE [s EXCEPT !.panic = TRUE]
      [] OTHER -> s

\* Bus::mem_read: the state it leaves
MemReadSt(s, addr) == MemReadArmSt(s, MirrorDown(addr))

\* the 0x4014 arm of mem_write: 256 reads, then PPU::write_oam_dma
OamDma(s, data) ==
    LET hi == data * 256
        sideEffects == \E i \in 0..255 : MemReadSt(s, hi + i) # s
    IN IF sideEffects
       THEN [s EXCEPT !.panic = TRUE]
       ELSE WriteOamDma(s, [i \in 0..255 |-> MemReadVal(s, hi + i)])

\* the match of Bus::mem_write on the mirrored-down `addr`
MemWriteArm(s, addr, data) ==
    CASE addr \in WRAM_START..WRAM_END ->
            [s EXCEPT !.cpu_wram = ArrSet(@, WramIndex(addr), data)]
      [] addr = 8192 -> WriteToController(s, data)
      [] addr = 8193 -> WriteToMask(s, data)
      [] addr = 8194 -> [s EXCEPT !.panic = TRUE]
      [] addr = 8195 -> WriteToOamAddr(s, data)
      [] addr = 8196 -> WriteToOamData(s, data)
      [] addr = 8197 -> PpuScrollWrite(s, data)
      [] addr = 8198 -> PpuAddrUpdate(s, data)
      [] addr = 8199 -> WriteToData(s, data)
      [] addr = 16404 -> OamDma(s, data)
      [] addr = 16406 -> JoypadWrite(s, data)
      [] addr \in PRG_RAM_START..PRG_RAM_END ->
            [s EXCEPT !.prg_ram = ArrSet(@, addr - PRG_RAM_START, data)]
      [] OTHER -> s

\* Bus::mem_write
MemWrite(s, addr, data) == MemWriteArm(s, MirrorDown(addr), data)

\* a poll that reads the flag without taking it
PullNmiStatusPeek(s) == s

\* Bus::pull_nmi_status: Option::take leaves None behind
PullNmiStatus(s) == [s EXCEPT !.nmi_interrupt = FALSE]

\* =================================================================== CPU

\* OpCode::new (src/src/cpu/opcodes.rs)
OpCode(code, op, bytes, cyc, addressing_mode) ==
    [code |-> code, op |-> op, bytes |-> bytes, cycles |-> cyc,
     addressing_mode |-> addressing_mode]

\* CPU_OPS_CODES, in the order of the source vector
CPU_OPS_CODES == <<
    OpCode(105, "ADC", 2, 2, "Immediate"),
    OpCode(101, "ADC", 2, 3, "ZeroPage"),
    OpCode(117, "ADC", 2, 4, "ZeroPage_X"),
    OpCode(109, "ADC", 3, 4, "Absolute"),
    OpCode(125, "ADC", 3, 4, "Absolute_X"),
    OpCode(121, "ADC", 3, 4, "Absolute_Y"),
    OpCode(97, "ADC", 2, 6, "Indirect_X"),
    OpCode(113, "ADC", 2, 5, "Indirect_Y"),
    OpCode(41, "AND", 2, 2, "Immediate"),
    OpCode(37, "AND", 2, 3, "ZeroPage"),
    OpCode(53, "AND", 2, 4, "ZeroPage_X"),
    OpCode(45, "AND", 3, 4, "Absolute"),
    OpCode(61, "AND", 3, 4, "Absolute_X"),
    OpCode(57, "AND", 3, 4, "Absolute_Y"),
    OpCode(33, "AND", 2, 6, "Indirect_X"),
    OpCode(49, "AND", 2, 5, "Indirect_Y"),
    OpCode(10, "ASL", 1, 2, "NoneAddressing"),
    OpCode(6, "ASL", 2, 5, "ZeroPage"),
    OpCode(22, "ASL", 2, 6, "ZeroPage_X"),
    OpCode(14, "ASL", 3, 6, "Absolute"),
    OpCode(30, "ASL", 3, 7, "Absolute_X"),
    OpCode(144, "BCC", 2, 2, "NoneAddressing"),
    OpCode(176, "BCS", 2, 2, "NoneAddressing"),
    OpCode(240, "BEQ", 2, 2, "NoneAddressing"),
    OpCode(36, "BIT", 2, 3, "ZeroPage"),
    OpCode(44, "BIT", 3, 4, "Absolute"),
    OpCode(48, "BMI", 2, 2, "NoneAddressing"),
    OpCode(208, "BNE", 2, 2, "NoneAddressing"),
    OpCode(16, "BPL", 2, 2, "NoneAddressing"),
    OpCode(0, "BRK", 1, 7, "NoneAddressing"),
    OpCode(80, "BVC", 2, 2, "NoneAddressing"),
    OpCode(112, "BVS", 2, 2, "NoneAddressing"),
    OpCode(24, "CLC", 1, 2, "NoneAddressing"),
    OpCode(216, "CLD", 1, 2, "NoneAddressing"),
    OpCode(88, "CLI", 1, 2, "NoneAddressing"),
    OpCode(184, "CLV", 1, 2, "NoneAddressing"),
    OpCode(201, "CMP", 2, 2, "Immediate"),
    OpCode(197, "CMP", 2, 3, "ZeroPage"),
    OpCode(213, "CMP", 2, 4, "ZeroPage_X"),
    OpCode(205, "CMP", 3, 4, "Absolute"),
    OpCode(221, "CMP", 3, 4, "Absolute_X"),
    OpCode(217, "CMP", 3, 4, "Absolute_Y"),
    OpCode(193, "CMP", 2, 6, "Indirect_X"),
    OpCode(209, "CMP", 2, 5, "Indirect_Y"),
    OpCode(224, "CPX", 2, 2, "Immediate"),
    OpCode(228, "CPX", 2, 3, "ZeroPage"),
    OpCode(236, "CPX", 3, 4, "Absolute"),
    OpCode(192, "CPY", 2, 2, "Immediate"),
    OpCode(196, "CPY", 2, 3, "ZeroPage"),
    OpCode(204, "CPY", 3, 4, "Absolute"),
    OpCode(198, "DEC", 2, 5, "ZeroPage"),
    OpCode(214, "DEC", 2, 6, "ZeroPage_X"),
    OpCode(206, "DEC", 3, 6, "Absolute"),
    OpCode(222, "DEC", 3, 7, "Absolute_X"),
    OpCode(202, "DEX", 1, 2, "NoneAddressing"),
    OpCode(136, "DEY", 1, 2, "NoneAddressing"),
    OpCode(73, "EOR", 2, 2, "Immediate"),
    OpCode(69, "EOR", 2, 3, "ZeroPage"),
    OpCode(85, "EOR", 2, 4, "ZeroPage_X"),
    OpCode(77, "EOR", 3, 4, "Absolute"),
    OpCode(93, "EOR", 3, 4, "Absolute_X"),
    OpCode(89, "EOR", 3, 4, "Absolute_Y"),
    OpCode(65, "EOR", 2, 6, "Indirect_X"),
    OpCode(81, "EOR", 2, 5, "Indirect_Y"),
    OpCode(230, "INC", 2, 5, "ZeroPage"),
    OpCode(246, "INC", 2, 6, "ZeroPage_X"),
    OpCode(238, "INC", 3, 6, "Absolute"),
    OpCode(254, "INC", 3, 7, "Absolute_X"),
    OpCode(232, "INX", 1, 2, "NoneAddressing"),
    OpCode(200, "INY", 1, 2, "NoneAddressing"),
    OpCode(76, "JMP", 3, 3, "Absolute"),
    OpCode(108, "JMP", 3, 5, "Indirect"),
    OpCode(32, "JSR", 3, 6, "NoneAddressing"),
    OpCode(169, "LDA", 2, 2, "Immediate"),
    OpCode(165, "LDA", 2, 3, "ZeroPage"),
    OpCode(181, "LDA", 2, 4, "ZeroPage_X"),
    OpCode(173, "LDA", 3, 4, "Absolute"),
    OpCode(189, "LDA", 3, 4, "Absolute_X"),
    OpCode(185, "LDA", 3, 4, "Absolute_Y"),
    OpCode(161, "LDA", 2, 6, "Indirect_X"),
    OpCode(177, "LDA", 2, 5, "Indirect_Y"),
    OpCode(162, "LDX", 2, 2, "Immediate"),
    OpCode(166, "LDX", 2, 3, "ZeroPage"),
    OpCode(182, "LDX", 2, 4, "ZeroPage_Y"),
    OpCode(174, "LDX", 3, 4, "Absolute"),
    OpCode(190, "LDX", 3, 4, "Absolute_Y"),
    OpCode(160, "LDY", 2, 2, "Immediate"),
    OpCode(164, "LDY", 2, 3, "ZeroPage"),
    OpCode(180, "LDY", 2, 4, "ZeroPage_X"),
    OpCode(172, "LDY", 3, 4, "Absolute"),
    OpCode(188, "LDY", 3, 4, "Absolute_X"),
    OpCode(74, "LSR", 1, 2, "NoneAddressing"),
    OpCode(70, "LSR", 2, 5, "ZeroPage"),
    OpCode(86, "LSR", 2, 6, "ZeroPage_X"),
    OpCode(78, "LSR", 3, 6, "Absolute"),
    OpCode(94, "LSR", 3, 7, "Absolute_X"),
    OpCode(234, "NOP", 1, 2, "NoneAddressing"),
    OpCode(9, "ORA", 2, 2, "Immediate"),
    OpCode(5, "ORA", 2, 3, "ZeroPage"),
    OpCode(21, "ORA", 2, 4, "ZeroPage_X"),
    OpCode(13, "ORA", 3, 4, "Absolute"),
    OpCode(29, "ORA", 3, 4, "Absolute_X"),
    OpCode(25, "ORA", 3, 4, "Absolute_Y"),
    OpCode(1, "ORA", 2, 6, "Indirect_X"),
    OpCode(17, "ORA", 2, 5, "Indirect_Y"),
    OpCode(72, "PHA", 1, 3, "NoneAddressing"),
    OpCode(8, "PHP", 1, 3, "NoneAddressing"),
    OpCode(104, "PLA", 1, 4, "NoneAddressing"),
    OpCode(40, "PLP", 1, 4, "NoneAddressing"),
    OpCode(42, "ROL", 1, 2, "NoneAddressing"),
    OpCode(38, "ROL", 2, 5, "ZeroPage"),
    OpCode(54, "ROL", 2, 6, "ZeroPage_X"),
    OpCode(46, "ROL", 3, 6, "Absolute"),
    OpCode(62, "ROL", 3, 7, "Absolute_X"),
    OpCode(106, "ROR", 1, 2, "NoneAddressing"),
    OpCode(102, "ROR", 2, 5, "ZeroPage"),
    OpCode(118, "ROR", 2, 6, "ZeroPage_X"),
    OpCode(110, "ROR", 3, 6, "Absolute"),
    OpCode(126, "ROR", 3, 7, "Absolute_X"),
    OpCode(64, "RTI", 1, 6, "NoneAddressing"),
    OpCode(96, "RTS", 1, 6, "NoneAddressing"),
    OpCode(233, "SBC", 2, 2, "Immediate"),
    OpCode(229, "SBC", 2, 3, "ZeroPage"),
    OpCode(245, "SBC", 2, 4, "ZeroPage_X"),
    OpCode(237, "SBC", 3, 4, "Absolute"),
    OpCode(253, "SBC", 3, 4, "Absolute_X"),
    OpCode(249, "SBC", 3, 4, "Absolute_Y"),
    OpCode(225, "SBC", 2, 6, "Indirect_X"),
    OpCode(241, "SBC", 2, 5, "Indirect_Y"),
    OpCode(56, "SEC", 1, 2, "NoneAddressing"),
    OpCode(120, "SEI", 1, 2, "NoneAddressing"),
    OpCode(248, "SED", 1, 2, "NoneAddressing"),
    OpCode(133, "STA", 2, 3, "ZeroPage"),
    OpCode(149, "STA", 2, 4, "ZeroPage_X"),
    OpCode(141, "STA", 3, 4, "Absolute"),
    OpCode(157, "STA", 3, 5, "Absolute_X"),
    OpCode(153, "STA", 3, 5, "Absolute_Y"),
    OpCode(129, "STA", 2, 6, "Indirect_X"),
    OpCode(145, "STA", 2, 6, "Indirect_Y"),
    OpCode(134, "STX", 2, 3, "ZeroPage"),
    OpCode(150, "STX", 2, 4, "ZeroPage_Y"),
    OpCode(142, "STX", 3, 4, "Absolute"),
    OpCode(132, "STY", 2, 3, "ZeroPage"),
    OpCode(148, "STY", 2, 4, "ZeroPage_X"),
    OpCode(140, "STY", 3, 4, "Absolute"),
    OpCode(170, "TAX", 1, 2, "NoneAddressing"),
    OpCode(168, "TAY", 1, 2, "NoneAddressing"),
    OpCode(186, "TSX", 1, 2, "NoneAddressing"),
    OpCode(154, "TXS", 1, 2, "NoneAddressing"),
    OpCode(138, "TXA", 1, 2, "NoneAddressing"),
    OpCode(152, "TYA", 1, 2, "NoneAddressing"),
    OpCode(26, "NOP", 1, 2, "NoneAddressing"),
    OpCode(58, "NOP", 1, 2, "NoneAddressing"),
    OpCode(90, "NOP", 1, 2, "NoneAddressing"),
    OpCode(122, "NOP", 1, 2, "NoneAddressing"),
    OpCode(218, "NOP", 1, 2, "NoneAddressing"),
    OpCode(250, "NOP", 1, 2, "NoneAddressing"),
    OpCode(128, "NOP", 2, 2, "Immediate"),
    OpCode(130, "NOP", 2, 2, "Immediate"),
    OpCode(137, "NOP", 2, 2, "Immediate"),
    OpCode(194, "NOP", 2, 2, "Immediate"),
    OpCode(226, "NOP", 2, 2, "Immediate"),
    OpCode(4, "NOP", 2, 3, "ZeroPage"),
    OpCode(68, "NOP", 2, 3, "ZeroPage"),
    OpCode(100, "NOP", 2, 3, "ZeroPage"),
    OpCode(20, "NOP", 2, 4, "ZeroPage_X"),
    OpCode(52, "NOP", 2, 4, "ZeroPage_X"),
    OpCode(84, "NOP", 2, 4, "ZeroPage_X"),
    OpCode(116, "NOP", 2, 4, "ZeroPage_X"),
    OpCode(212, "NOP", 2, 4, "ZeroPage_X"),
    OpCode(244, "NOP", 2, 4, "ZeroPage_X"),
    OpCode(12, "NOP", 3, 4, "Absolute"),
    OpCode(28, "NOP", 3, 4, "Absolute_X"),
    OpCode(60, "NOP", 3, 4, "Absolute_X"),
    OpCode(92, "NOP", 3, 4, "Absolute_X"),
    OpCode(124, "NOP", 3, 4, "Absolute_X"),
    OpCode(220, "NOP", 3, 4, "Absolute_X"),
    OpCode(252, "NOP", 3, 4, "Absolute_X"),
    OpCode(163, "LAX", 2, 6, "Indirect_X"),
    OpCode(171, "LAX", 2, 2, "Immediate"),
    OpCode(167, "LAX", 2, 3, "ZeroPage"),
    OpCode(183, "LAX", 2, 4, "ZeroPage_Y"),
    OpCode(179, "LAX", 2, 5, "Indirect_Y"),
    OpCode(175, "LAX", 3, 4, "Absolute"),
    OpCode(191, "LAX", 3, 4, "Absolute_Y"),
    OpCode(135, "SAX", 2, 3, "ZeroPage"),
    OpCode(151, "SAX", 2, 4, "ZeroPage_Y"),
    OpCode(143, "SAX", 3, 4, "Absolute"),
    OpCode(131, "SAX", 2, 6, "Indirect_X"),
    OpCode(235, "SBC", 2, 2, "Immediate"),
    OpCode(199, "DCP", 2, 5, "ZeroPage"),
    OpCode(215, "DCP", 2, 6, "ZeroPage_X"),
    OpCode(207, "DCP", 3, 6, "Absolute"),
    OpCode(223, "DCP", 3, 7, "Absolute_X"),
    OpCode(219, "DCP", 3, 7, "Absolute_Y"),
    OpCode(211, "DCP", 2, 8, "Indirect_Y"),
    OpCode(195, "DCP", 2, 8, "Indirect_X"),
    OpCode(231, "ISB", 2, 5, "ZeroPage"),
    OpCode(247, "ISB", 2, 6, "ZeroPage_X"),
    OpCode(239, "ISB", 3, 6, "Absolute"),
    OpCode(255, "ISB", 3, 7, "Absolute_X"),
    OpCode(251, "ISB", 3, 7, "Absolute_Y"),
    OpCode(227, "ISB", 2, 8, "Indirect_X"),
    OpCode(243, "ISB", 2, 8, "Indirect_Y"),
    OpCode(7, "SLO", 2, 5, "ZeroPage"),
    OpCode(23, "SLO", 2, 6, "ZeroPage_X"),
    OpCode(15, "SLO", 3, 6, "Absolute"),
    OpCode(31, "SLO", 3, 7, "Absolute_X"),
    OpCode(27, "SLO", 3, 7, "Absolute_Y"),
    OpCode(3, "SLO", 2, 8, "Indirect_X"),
    OpCode(19, "SLO", 2, 8, "Indirect_Y"),
    OpCode(39, "RLA", 2, 5, "ZeroPage"),
    OpCode(55, "RLA", 2, 6, "ZeroPage_X"),
    OpCode(47, "RLA", 3, 6, "Absolute"),
    OpCode(63, "RLA", 3, 7, "Absolute_X"),
    OpCode(59, "RLA", 3, 7, "Absolute_Y"),
    OpCode(51, "RLA", 2, 8, "Indirect_Y"),
    OpCode(35, "RLA", 2, 8, "Indirect_X"),
    OpCode(71, "SRE", 2, 5, "ZeroPage"),
    OpCode(87, "SRE", 2, 6, "ZeroPage_X"),
    OpCode(79, "SRE", 3, 6, "Absolute"),
    OpCode(95, "SRE", 3, 7, "Absolute_X"),
    OpCode(91, "SRE", 3, 7, "Absolute_Y"),
    OpCode(67, "SRE", 2, 8, "Indirect_X"),
    OpCode(83, "SRE", 2, 8, "Indirect_Y"),
    OpCode(103, "RRA", 2, 5, "ZeroPage"),
    OpCode(119, "RRA", 2, 6, "ZeroPage_X"),
    OpCode(111, "RRA", 3, 6, "Absolute"),
    OpCode(127, "RRA", 3, 7, "Absolute_X"),
    OpCode(123, "RRA", 3, 7, "Absolute_Y"),
    OpCode(99, "RRA", 2, 8, "Indirect_X"),
    OpCode(115, "RRA", 2, 8, "Indirect_Y")
>>


\* the table lookup of the run loop:
\* CPU_OPS_CODES.iter().find(|opcode| opcode.code == code), an Option:
\* << >> when absent, << opcode >> when found
OpcodeTable ==
    LET Find(table) ==
            [c \in 0..255 |->
                IF \E i \in 1..Len(table) : table[i].code = c
                THEN << table[CHOOSE i \in 1..Len(table) :
                                /\ table[i].code = c
                                /\ \A j \in 1..(i - 1) : table[j].code # c] >>
                ELSE << >>]
    IN Find(CPU_OPS_CODES)

HasOpcode(code) == OpcodeTable[code] # << >>
Lookup(code) == OpcodeTable[code][1]

\* a memory read: the byte and the state the read leaves
Rd(s, addr) == [v |-> MemReadVal(s, addr), s |-> MemReadSt(s, addr)]

\* a 16-bit read assembled from its two byte reads, low byte first
JoinU16(lo, hi) == [v |-> hi.v * 256 + lo.v, s |-> hi.s]

\* the high-byte read of a 16-bit read whose low byte `lo` is read
RdHigh(lo, pos) == JoinU16(lo, Rd(lo.s, pos))

\* Mem::mem_read_u16: low byte at pos, high byte at pos + 1 (wrapping)
RdU16(s, pos) == RdHigh(Rd(s, pos), Wrap16(pos + 1))

\* CPU::stack_push: mem_write at STACK + stack_pointer, an address in
\* 0x0100..0x01FF, so always the work-RAM arm of Bus::mem_write
StackPush(s, data) ==
    [s EXCEPT !.cpu_wram = ArrSet(@, STACK + s.stack_pointer, data),
              !.stack_pointer = Wrap8(@ + 255)]

\* CPU::stack_push_u16: high byte first
StackPushU16(s, data) ==
    StackPush(StackPush(s, data \div 256), data % 256)

\* stack_pop reading at STACK + stack_pointer + 1 in 16 bits, past the page
StackPopPastPage(s) ==
    [v |-> ArrGet(s.cpu_wram, STACK + s.stack_pointer + 1),
     s |-> [s EXCEPT !.stack_pointer = Wrap8(@ + 1)]]

\* CPU::stack_pop: mem_read at STACK + the incremented stack_pointer, always
\* the work-RAM arm of Bus::mem_read
StackPop(s) ==
    [v |-> ArrGet(s.cpu_wram, STACK + Wrap8(s.stack_pointer + 1)),
     s |-> [s EXCEPT !.stack_pointer = Wrap8(@ + 1)]]

\* the second pop of stack_pop_u16
StackPopHigh(lo) == JoinU16(lo, StackPop(lo.s))

\* CPU::stack_pop_u16: low byte first
StackPopU16(s) == StackPopHigh(StackPop(s))

\* CPU::update_zero_and_negative_flags
UpdateZeroAndNegativeFlags(s, result) ==
    [s EXCEPT !.status = SetBit(SetBit(@, ZERO, result = 0),
                                NEGATIVE, result >= 128)]

\* CPU::set_register_a
SetRegisterA(s, value) ==
    UpdateZeroAndNegativeFlags([s EXCEPT !.register_a = value], value)

\* add_to_register_a without the carry-in
AddToRegisterANoCarryIn(s, data) ==
    LET sum == s.register_a + data
        result == sum % 256
        overflow == BitAnd(BitAnd(BitXor(data, result),
                                  BitXor(result, s.register_a)), 128) # 0
    IN SetRegisterA([s EXCEPT !.status = SetBit(SetBit(@, CARRY, sum > 255),
                                                OVERFLOW, overflow)],
                    result)

\* CPU::add_to_register_a
AddToRegisterA(s, data) ==
    LET sum == s.register_a + data + (IF Contains(s.status, CARRY) THEN 1 ELSE 0)
        result == sum % 256
        overflow == BitAnd(BitAnd(BitXor(data, result),
                                  BitXor(result, s.register_a)), 128) # 0
    IN SetRegisterA([s EXCEPT !.status = SetBit(SetBit(@, CARRY, sum > 255),
                                                OVERFLOW, overflow)],
                    result)

\* CPU::page_cross
PageCross(a, b) == (a \div 256) # (b \div 256)

\* an operand address with its page-cross flag and the state left
Resolved(addr, page_cross, s) == [addr |-> addr, page_cross |-> page_cross, s |-> s]

\* the Absolute_X / Absolute_Y arms: base + index, and whether the page changed
AbsoluteIndexed(r, index) ==
    Resolved(Wrap16(r.v + index), PageCross(r.v, Wrap16(r.v + index)), r.s)

\* the arms of get_absolute_address that begin with mem_read_u16(addr): `r`
AbsoluteArm(s, mode, r) ==
    CASE mode = "Absolute" -> Resolved(r.v, FALSE, r.s)
      [] mode = "Absolute_X" -> AbsoluteIndexed(r, s.register_x)
      [] mode = "Absolute_Y" -> AbsoluteIndexed(r, s.register_y)

\* the end of the Indirect_X / Indirect_Y arms, from the pointer `deref_base`
\* read from the zero page
IndirectArm(s, mode, deref_base) ==
    IF mode = "Indirect_X"
    THEN Resolved(deref_base.v, FALSE, deref_base.s)
    ELSE Resolved(Wrap16(deref_base.v + s.register_y),
                  PageCross(Wrap16(deref_base.v + s.register_y), deref_base.v),
                  deref_base.s)

\* the pointer read of the Indirect arms: lo at ptr, hi at ptr + 1 within
\* the zero page
ZeroPagePointer(s, mode, t, ptr) ==
    IndirectArm(s, mode, RdHigh(Rd(t, ptr), Wrap8(ptr + 1)))

\* the arms of get_absolute_address that begin with mem_read(addr): `base`
ZeroPageArm(s, mode, base) ==
    CASE mode = "ZeroPage" -> Resolved(base.v, FALSE, base.s)
      [] mode = "ZeroPage_X" -> Resolved(Wrap8(base.v + s.register_x), FALSE, base.s)
      [] mode = "ZeroPage_Y" -> Resolved(Wrap8(base.v + s.register_y), FALSE, base.s)
      [] mode = "Indirect_X" ->
            ZeroPagePointer(s, mode, base.s, Wrap8(base.v + s.register_x))
      [] mode = "Indirect_Y" ->
            ZeroPagePointer(s, mode, base.s, base.v)

\* CPU::get_absolute_address: [addr, page_cross] and the state `s` that the
\* reads of the operand bytes and of the zero-page pointer leave
GetAbsoluteAddress(s, mode, addr) ==
    CASE mode \in {"ZeroPage", "ZeroPage_X", "ZeroPage_Y",
                   "Indirect_X", "Indirect_Y"} -> ZeroPageArm(s, mode, Rd(s, addr))
      [] mode \in {"Absolute", "Absolute_X", "Absolute_Y"} ->
            AbsoluteArm(s, mode, RdU16(s, addr))
      [] OTHER -> Resolved(0, FALSE, s)

\* CPU::get_operand_address
GetOperandAddress(s, mode) ==
    IF mode = "Immediate"
    THEN [addr |-> s.program_counter, page_cross |-> FALSE, s |-> s]
    ELSE GetAbsoluteAddress(s, mode, s.program_counter)

\* an operand: its address and page-cross flag with the byte `r` read there
OperandValue(a, r) ==
    [addr |-> a.addr, page_cross |-> a.page_cross, v |-> r.v, s |-> r.s]

\* the mem_read(addr) with which an operation follows get_operand_address
ReadOperand(a) == OperandValue(a, Rd(a.s, a.addr))

\* a page-cross tail that never ticks
TickIfNever(s, cond) == s

\* the `if page_cross && flag { self.bus.tick(1) }` tail
TickIf(s, cond) == IF cond THEN Tick(s, 1) ELSE s

\* ---------------------------------------------------------- operations
\* (src/src/cpu/operations.rs)  Every operation with an addressing mode
\* begins with get_operand_address(mode), most go on to mem_read(addr): the
\* match in the run loop (Execute) resolves both once and hands an operation
\* the resolved address `a` (GetOperandAddress) or the operand read `o`
\* (ReadOperand) in place of `mode`.

adc(o, adc_page_cross) ==
    TickIf(AddToRegisterA(o.s, o.v), o.page_cross /\ adc_page_cross)

and(o, and_page_cross) ==
    TickIf(UpdateZeroAndNegativeFlags(
               [o.s EXCEPT !.register_a = BitAnd(@, o.v)],
               BitAnd(o.s.register_a, o.v)),
           o.page_cross /\ and_page_cross)

\* asl, lsr, rol, ror on the accumulator (NoneAddressing): `r` is the new
\* byte and the carry out.  asl and lsr store register_a directly, rol and
\* ror through set_register_a; both come to the same flags.
ShiftAccumulator(s, r) ==
    UpdateZeroAndNegativeFlags(
        [s EXCEPT !.status = SetBit(@, CARRY, r.carry), !.register_a = r.data],
        r.data)

\* asl, lsr, rol, ror on memory: mem_write of the new byte, then N and Z
\* (by update_zero_and_negative_flags in asl and lsr, by hand in rol and ror)
ShiftMemory(o, r) ==
    UpdateZeroAndNegativeFlags(
        MemWrite([o.s EXCEPT !.status = SetBit(@, CARRY, r.carry)], o.addr, r.data),
        r.data)

AslBits(data, old_carry) ==
    [carry |-> data \div 128 = 1, data |-> Wrap8(data * 2)]
LsrBits(data, old_carry) ==
    [carry |-> data % 2 = 1, data |-> data \div 2]
RolBits(data, old_carry) ==
    [carry |-> data \div 128 = 1,
     data |-> Wrap8(data * 2) + (IF old_carry THEN 1 ELSE 0)]
RorBits(data, old_carry) ==
    [carry |-> data % 2 = 1,
     data |-> (data \div 2) + (IF old_carry THEN 128 ELSE 0)]

asl(s, mode, o) ==
    IF mode = "NoneAddressing"
    THEN ShiftAccumulator(s, AslBits(s.register_a, Contains(s.status, CARRY)))
    ELSE ShiftMemory(o, AslBits(o.v, Contains(o.s.status, CARRY)))
lsr(s, mode, o) ==
    IF mode = "NoneAddressing"
    THEN ShiftAccumulator(s, LsrBits(s.register_a, Contains(s.status, CARRY)))
    ELSE ShiftMemory(o, LsrBits(o.v, Contains(o.s.status, CARRY)))
rol(s, mode, o) ==
    IF mode = "NoneAddressing"
    THEN ShiftAccumulator(s, RolBits(s.register_a, Contains(s.status, CARRY)))
    ELSE ShiftMemory(o, RolBits(o.v, Contains(o.s.status, CARRY)))
ror(s, mode, o) ==
    IF mode = "NoneAddressing"
    THEN ShiftAccumulator(s, RorBits(s.register_a, Contains(s.status, CARRY)))
    ELSE ShiftMemory(o, RorBits(o.v, Contains(o.s.status, CARRY)))

bit(o) ==
    [o.s EXCEPT !.status =
        SetBit(SetBit(SetBit(@, ZERO, BitAnd(o.s.register_a, o.v) = 0),
                      NEGATIVE, o.v >= 128),
               OVERFLOW, BitAnd(o.v, 64) > 0)]

\* the jump of a taken branch: `base` is program_counter when branch runs
\* (the address of the offset byte), `jump` the offset read there
BranchJump(base, jump) ==
    TickIf([jump.s EXCEPT
               !.program_counter = Wrap16(base + SignExtend(jump.v)),
               !.branch_taken = TRUE],
           PageCross(Wrap16(base + 2),
                     Wrap16(Wrap16(base + SignExtend(jump.v)) + 1)))

\* a taken branch, after its tick(1)
BranchTaken(s1) == BranchJump(s1.program_counter, Rd(s1, s1.program_counter))

branch(s, condition) == IF condition THEN BranchTaken(Tick(s, 1)) ELSE s

compare(o, compare_with, cmp_page_cross) ==
    TickIf(UpdateZeroAndNegativeFlags(
               [o.s EXCEPT !.status = SetBit(@, CARRY, o.v <= compare_with)],
               Wrap8(compare_with + 256 - o.v)),
           o.page_cross /\ cmp_page_cross)

eor(o, eor_page_cross) ==
    TickIf(UpdateZeroAndNegativeFlags(
               [o.s EXCEPT !.register_a = BitXor(@, o.v)],
               BitXor(o.s.register_a, o.v)),
           o.page_cross /\ eor_page_cross)

dec(o) ==
    UpdateZeroAndNegativeFlags(MemWrite(o.s, o.addr, Wrap8(o.v + 255)),
                               Wrap8(o.v + 255))

inc(o) ==
    UpdateZeroAndNegativeFlags(MemWrite(o.s, o.addr, Wrap8(o.v + 1)),
                               Wrap8(o.v + 1))

dex(s) ==
    UpdateZeroAndNegativeFlags([s EXCEPT !.register_x = Wrap8(@ + 255)],
                               Wrap8(s.register_x + 255))
dey(s) ==
    UpdateZeroAndNegativeFlags([s EXCEPT !.register_y = Wrap8(@ + 255)],
                               Wrap8(s.register_y + 255))
inx(s) ==
    UpdateZeroAndNegativeFlags([s EXCEPT !.register_x = Wrap8(@ + 1)],
                               Wrap8(s.register_x + 1))
iny(s) ==
    UpdateZeroAndNegativeFlags([s EXCEPT !.register_y = Wrap8(@ + 1)],
                               Wrap8(s.register_y + 1))

\* the end of jmp and jsr: program_counter = target - 2 (the loop adds bytes - 1)
JumpTo(target) == [target.s EXCEPT !.program_counter = Wrap16(target.v + 65534)]

\* jmp with the high byte always taken from the vector + 1
JmpOperandNoWrap(mode, m) ==
    CASE mode = "Absolute" -> JumpTo(m)
      [] mode = "Indirect" -> JumpTo(RdU16(m.s, m.v))
      [] OTHER -> [m.s EXCEPT !.panic = TRUE]

\* jmp after reading its operand `m`.  An indirect jump through a vector at
\* 0x..FF takes its high byte from 0x..00 of the same page
JmpOperand(mode, m) ==
    CASE mode = "Absolute" -> JumpTo(m)
      [] mode = "Indirect" ->
            IF m.v % 256 = 255
            THEN JumpTo(RdHigh(Rd(m.s, m.v), m.v - 255))
            ELSE JumpTo(RdU16(m.s, m.v))
      [] OTHER -> [m.s EXCEPT !.panic = TRUE]

jmp(s, mode) == JmpOperand(mode, RdU16(s, s.program_counter))

\* jsr after pushing the return address
JsrTarget(s1) == JumpTo(RdU16(s1, s1.program_counter))

\* `self.program_counter + 2 - 1` is unchecked u16 arithmetic: with overflow
\* checks it panics when program_counter + 2 exceeds 0xFFFF, without it wraps
jsr(s) ==
    IF s.overflow_checks /\ s.program_counter + 2 > 65535
    THEN [s EXCEPT !.panic = TRUE]
    ELSE JsrTarget(StackPushU16(s, Wrap16(Wrap16(s.program_counter + 2) + 65535)))

sax(a) == MemWrite(a.s, a.addr, BitAnd(a.s.register_x, a.s.register_a))
sta(a) == MemWrite(a.s, a.addr, a.s.register_a)
stx(a) == MemWrite(a.s, a.addr, a.s.register_x)
sty(a) == MemWrite(a.s, a.addr, a.s.register_y)

lda(o) ==
    TickIf(UpdateZeroAndNegativeFlags([o.s EXCEPT !.register_a = o.v], o.v),
           o.page_cross)
ldx(o) ==
    TickIf(UpdateZeroAndNegativeFlags([o.s EXCEPT !.register_x = o.v], o.v),
           o.page_cross)
ldy(o) ==
    TickIf(UpdateZeroAndNegativeFlags([o.s EXCEPT !.register_y = o.v], o.v),
           o.page_cross)

nop(a) == TickIf(a.s, a.page_cross)

ora(o, ora_page_cross) ==
    TickIf(UpdateZeroAndNegativeFlags(
               [o.s EXCEPT !.register_a = BitOr(@, o.v)],
               BitOr(o.s.register_a, o.v)),
           o.page_cross /\ ora_page_cross)

php(s) == StackPush(s, BitOr(s.status, 48))

\* pla / plp after the pop `r`
PlaPulled(r) == SetRegisterA(r.s, r.v)
PlpPulled(r) == [r.s EXCEPT !.status = BitOr(BitAnd(@, 48), BitAnd(r.v, 207))]

pla(s) == PlaPulled(StackPop(s))
plp(s) == PlpPulled(StackPop(s))

\* sbc adding the two's complement of the operand: (data as i8).wrapping_neg()
sbcTwosComplement(o, sbc_page_cross) ==
    TickIf(AddToRegisterA(o.s, Wrap8(256 - o.v)),
           o.page_cross /\ sbc_page_cross)

\* (data as i8).wrapping_neg().wrapping_sub(1) as u8
sbc(o, sbc_page_cross) ==
    TickIf(AddToRegisterA(o.s, Wrap8(Wrap8(256 - o.v) + 255)),
           o.page_cross /\ sbc_page_cross)

sei(s) == [s EXCEPT !.status = SetBit(@, INTERRUPT_DISABLE, TRUE)]

tax(s) == UpdateZeroAndNegativeFlags([s EXCEPT !.register_x = s.register_a],
                                     s.register_a)
tay(s) == UpdateZeroAndNegativeFlags([s EXCEPT !.register_y = s.register_a],
                                     s.register_a)
tsx(s) == UpdateZeroAndNegativeFlags([s EXCEPT !.register_x = s.stack_pointer],
                                     s.stack_pointer)
txa(s) == UpdateZeroAndNegativeFlags([s EXCEPT !.register_a = s.register_x],
                                     s.register_x)
tya(s) == UpdateZeroAndNegativeFlags([s EXCEPT !.register_a = s.register_y],
                                     s.register_y)

\* program_counter = the popped address + n
ReturnTo(r, n) == [r.s EXCEPT !.program_counter = Wrap16(r.v + n)]

\* the RTI arm: plp, then program_counter = stack_pop_u16()
rti(s) == ReturnTo(StackPopU16(plp(s)), 0)

\* the RTS arm: program_counter = stack_pop_u16().wrapping_add(1)
rts(s) == ReturnTo(StackPopU16(s), 1)

Flag(s, mask) == Contains(s.status, mask)

\* the conditions of the eight branch arms of the match
BranchCondition(s, op) ==
    CASE op = "BCC" -> ~Flag(s, CARRY)
      [] op = "BCS" -> Flag(s, CARRY)
      [] op = "BEQ" -> Flag(s, ZERO)
      [] op = "BMI" -> Flag(s, NEGATIVE)
      [] op = "BNE" -> ~Flag(s, ZERO)
      [] op = "BPL" -> ~Flag(s, NEGATIVE)
      [] op = "BVC" -> ~Flag(s, OVERFLOW)
      [] op = "BVS" -> Flag(s, OVERFLOW)

BranchOps == {"BCC", "BCS", "BEQ", "BMI", "BNE", "BPL", "BVC", "BVS"}

\* the arms that call two operations: the second one resolves and reads
\* its operand anew, after the first has written
TwoStepOps == {"DCP", "ISB", "RLA", "RRA", "SLO", "SRE"}

\* the second call of a two-operation arm, on the operand `o` read anew
ExecuteSecond(op, o) ==
    CASE op = "DCP" -> compare(o, o.s.register_a, FALSE)
      [] op = "ISB" -> sbc(o, FALSE)
      [] op = "RLA" -> and(o, FALSE)
      [] op = "RRA" -> adc(o, FALSE)
      [] op = "SLO" -> ora(o, FALSE)
      [] op = "SRE" -> eor(o, FALSE)

\* the arm of `match opcode.op` for `op`, up to its first operation; `a` is
\* that operation's get_operand_address(mode), `o` its mem_read(addr).
\* (ALR, ANC and ARR have arms but no entry in CPU_OPS_CODES, so the lookup
\* never yields them.)
ExecuteFirst(s, op, mode, a, o) ==
    CASE op = "ADC" -> adc(o, TRUE)
      [] op = "AND" -> and(o, TRUE)
      [] op = "ASL" -> asl(s, mode, o)
      [] op \in BranchOps -> branch(s, BranchCondition(s, op))
      [] op = "BIT" -> bit(o)
      [] op = "CLC" -> [s EXCEPT !.status = SetBit(@, CARRY, FALSE)]
      [] op = "CLD" -> [s EXCEPT !.status = SetBit(@, DECIMAL_MODE, FALSE)]
      [] op = "CLI" -> [s EXCEPT !.status = SetBit(@, INTERRUPT_DISABLE, FALSE)]
      [] op = "CLV" -> [s EXCEPT !.status = SetBit(@, OVERFLOW, FALSE)]
      [] op = "CMP" -> compare(o, s.register_a, TRUE)
      [] op = "CPX" -> compare(o, s.register_x, TRUE)
      [] op = "CPY" -> compare(o, s.register_y, TRUE)
      [] op = "DCP" -> dec(o)
      [] op = "DEC" -> dec(o)
      [] op = "DEX" -> dex(s)
      [] op = "DEY" -> dey(s)
      [] op = "EOR" -> eor(o, TRUE)
      [] op = "INC" -> inc(o)
      [] op = "INX" -> inx(s)
      [] op = "INY" -> iny(s)
      [] op = "ISB" -> inc(o)
      [] op = "JMP" -> jmp(s, mode)
      [] op = "JSR" -> jsr(s)
      [] op = "LAX" -> tax(lda(o))
      [] op = "LDA" -> lda(o)
      [] op = "LDX" -> ldx(o)
      [] op = "LDY" -> ldy(o)
      [] op = "LSR" -> lsr(s, mode, o)
      [] op = "NOP" -> nop(a)
      [] op = "ORA" -> ora(o, TRUE)
      [] op = "PHA" -> StackPush(s, s.register_a)
      [] op = "PHP" -> php(s)
      [] op = "PLA" -> pla(s)
      [] op = "PLP" -> plp(s)
      [] op = "ROL" -> rol(s, mode, o)
      [] op = "ROR" -> ror(s, mode, o)
      [] op = "RLA" -> rol(s, mode, o)
      [] op = "RRA" -> ror(s, mode, o)
      [] op = "RTI" -> rti(s)
      [] op = "RTS" -> rts(s)
      [] op = "SAX" -> sax(a)
      [] op = "SBC" -> sbc(o, TRUE)
      [] op = "SEC" -> [s EXCEPT !.status = SetBit(@, CARRY, TRUE)]
      [] op = "SED" -> [s EXCEPT !.status = SetBit(@, DECIMAL_MODE, TRUE)]
      [] op = "SEI" -> sei(s)
      [] op = "SLO" -> asl(s, mode, o)
      [] op = "SRE" -> lsr(s, mode, o)
      [] op = "STA" -> sta(a)
      [] op = "STX" -> stx(a)
      [] op = "STY" -> sty(a)
      [] op = "TAX" -> tax(s)
      [] op = "TAY" -> tay(s)
      [] op = "TSX" -> tsx(s)
      [] op = "TXA" -> txa(s)
      [] op = "TXS" -> [s EXCEPT !.stack_pointer = s.register_x]
      [] op = "TYA" -> tya(s)
      [] OTHER -> [s EXCEPT !.panic = TRUE]

\* the first operation of the arm, its operand address `a` resolved
ExecuteResolved(s, op, mode, a) == ExecuteFirst(s, op, mode, a, ReadOperand(a))

\* an arm that stops after its first operation
ExecuteThenNothing(op, mode, t) == t

\* the rest of the arm, on the state `t` the first operation left
ExecuteThen(op, mode, t) ==
    IF op \in TwoStepOps
    THEN ExecuteSecond(op, ReadOperand(GetOperandAddress(t, mode)))
    ELSE t

\* `match opcode.op` of the run loop
Execute(s, op, mode) ==
    ExecuteThen(op, mode, ExecuteResolved(s, op, mode, GetOperandAddress(s, mode)))

\* program_counter = the vector read
LoadVector(vec) == [vec.s EXCEPT !.program_counter = vec.v]

\* interrupt_nmi pushing the program counter low byte first
InterruptNmiLowFirst(s) ==
    LoadVector(RdU16(
        Tick([StackPush(StackPush(StackPush(s, s.program_counter % 256),
                                  s.program_counter \div 256),
                        SetBit(SetBit(s.status, BREAK, FALSE), BREAK2, TRUE))
                EXCEPT !.status = SetBit(@, INTERRUPT_DISABLE, TRUE)],
             NMI_ENTRY_CYCLES),
        NMI_VECTOR))

\* interrupt_nmi setting interrupt-disable before it pushes the flags
InterruptNmiDisablesFirst(s) ==
    LoadVector(RdU16(
        Tick(StackPush(StackPushU16([s EXCEPT !.status =
                                        SetBit(@, INTERRUPT_DISABLE, TRUE)],
                                    s.program_counter),
                       SetBit(SetBit(SetBit(s.status, INTERRUPT_DISABLE, TRUE),
                                     BREAK, FALSE), BREAK2, TRUE)),
             NMI_ENTRY_CYCLES),
        NMI_VECTOR))

\* CPU::interrupt_nmi
InterruptNmi(s) ==
    LoadVector(RdU16(
        Tick([StackPush(StackPushU16(s, s.program_counter),
                        SetBit(SetBit(s.status, BREAK, FALSE), BREAK2, TRUE))
                EXCEPT !.status = SetBit(@, INTERRUPT_DISABLE, TRUE)],
             NMI_ENTRY_CYCLES),
        NMI_VECTOR))

\* reset leaving the stack pointer as it was
ResetCpuKeepsSP(s) ==
    LoadVector(RdU16([s EXCEPT !.register_a = 0, !.register_x = 0,
                               !.register_y = 0, !.status = STATUS_RESET],
                     RESET_VECTOR))

\* CPU::reset
ResetCpu(s) ==
    LoadVector(RdU16([s EXCEPT !.register_a = 0, !.register_x = 0,
                               !.register_y = 0,
                               !.stack_pointer = STACK_RESET,
                               !.status = STATUS_RESET],
                     RESET_VECTOR))

\* a loop tail that adds the whole instruction length
AdvanceWhole(s, opcode) ==
    Tick([s EXCEPT !.program_counter = Wrap16(@ + opcode.bytes)], opcode.cycles)

\* the tail of a loop iteration: program_counter += bytes - 1; bus.tick(cycles)
Advance(s, opcode) ==
    Tick([s EXCEPT !.program_counter = Wrap16(@ + (opcode.bytes - 1))],
         opcode.cycles)

\* the opcode read `r` and program_counter += 1
Fetched(r) == [code |-> r.v, s |-> [r.s EXCEPT !.program_counter = Wrap16(@ + 1)]]

\* the opcode fetch: mem_read(program_counter); program_counter += 1
Fetch(s) == Fetched(Rd(s, s.program_counter))

\* the BRK arm as a hardware interrupt: push PC and status, load 0xFFFE
RunOpcodeBrkInterrupts(s, opcode) ==
    IF opcode.op = "BRK"
    THEN LoadVector(RdU16(
             [StackPush(StackPushU16(s, Wrap16(s.program_counter + 1)),
                        SetBit(s.status, BREAK, TRUE))
                 EXCEPT !.status = SetBit(@, INTERRUPT_DISABLE, TRUE)],
             65534))
    ELSE Advance(Execute(s, opcode.op, opcode.addressing_mode), opcode)

\* the match, the advance and the tick for the table entry `opcode`; the
\* BRK arm returns from the loop at once
RunOpcode(s, opcode) ==
    IF opcode.op = "BRK" THEN s
    ELSE Advance(Execute(s, opcode.op, opcode.addressing_mode), opcode)

\* the run loop passing over a byte that has no table entry
ExecuteInstructionSkips(s, code) ==
    IF ~HasOpcode(code) THEN s
    ELSE RunOpcode(s, Lookup(code))

\* one instruction of the run loop after the fetch of `code`: the lookup
\* (an absent entry panics), then the match, the advance and the tick
ExecuteInstruction(s, code) ==
    IF ~HasOpcode(code) THEN [s EXCEPT !.panic = TRUE]
    ELSE RunOpcode(s, Lookup(code))

\* ========================================================= the run loops

\* `probe` before the host has called the bus
NoProbe == [op |-> "none", addr |-> 0, value |-> 0, reads |-> << >>, out |-> << >>,
            ok |-> TRUE]

\* `fetched` of an iteration that fetched no opcode
NoFetch == 0 - 1

\* the machine fields of a result record become the next state
Commit(r) ==
    /\ register_a' = r.register_a /\ register_x' = r.register_x
    /\ register_y' = r.register_y /\ status' = r.status
    /\ program_counter' = r.program_counter /\ stack_pointer' = r.stack_pointer
    /\ cpu_wram' = r.cpu_wram /\ prg_ram' = r.prg_ram /\ prg_rom' = r.prg_rom
    /\ prg_rom_len' = r.prg_rom_len /\ bus_cycles' = r.bus_cycles
    /\ strobe' = r.strobe /\ button_index' = r.button_index
    /\ button_status' = r.button_status
    /\ chr_rom' = r.chr_rom /\ chr_ram' = r.chr_ram /\ has_chr_ram' = r.has_chr_ram
    /\ vram' = r.vram /\ palette_table' = r.palette_table
    /\ oam_data' = r.oam_data /\ oam_addr' = r.oam_addr
    /\ controller' = r.controller /\ ppu_mask' = r.ppu_mask
    /\ ppu_status' = r.ppu_status /\ mirroring' = r.mirroring
    /\ addr_hi' = r.addr_hi /\ addr_lo' = r.addr_lo /\ write_latch' = r.write_latch
    /\ scroll_x' = r.scroll_x /\ scroll_y' = r.scroll_y
    /\ scroll_latch' = r.scroll_latch
    /\ internal_data_buffer' = r.internal_data_buffer
    /\ scanline' = r.scanline /\ cycles' = r.cycles
    /\ nmi_interrupt' = r.nmi_interrupt
    /\ overflow_checks' = r.overflow_checks
    /\ ticked' = r.ticked /\ branch_taken' = r.branch_taken
    /\ frames' = r.frames /\ fed' = r.fed /\ raised' = r.raised
    /\ raised_tick' = r.raised_tick /\ raised_off' = r.raised_off
    /\ dropped' = r.dropped
    /\ entered' = r.entered
    /\ cpu_ticks' = r.cpu_ticks /\ rises' = r.rises /\ signalled' = r.signalled

\* what interrupt_nmi did, as seen right after it: the registers before and
\* after, the ticks it made, and the three stack cells it wrote
EntrySnapshot(s0, s1) ==
    [ pc0 |-> s0.program_counter, sp0 |-> s0.stack_pointer, status0 |-> s0.status,
      pc |-> s1.program_counter, sp |-> s1.stack_pointer, status |-> s1.status,
      ticked |-> s1.ticked,
      cell_hi |-> ArrGet(s1.cpu_wram, STACK + s0.stack_pointer),
      cell_lo |-> ArrGet(s1.cpu_wram, STACK + Wrap8(s0.stack_pointer + 255)),
      cell_flags |-> ArrGet(s1.cpu_wram, STACK + Wrap8(s0.stack_pointer + 254)) ]

\* the opcode `code` has a table entry whose mnemonic is `op`
IsOp(code, op) == HasOpcode(code) /\ Lookup(code).op = op

\* the head of a loop iteration:
\* if let Some(_nmi) = self.bus.pull_nmi_status() { self.interrupt_nmi(); }
PollInterrupt(s) ==
    IF s.nmi_interrupt
    THEN [InterruptNmi(PullNmiStatus(s)) EXCEPT !.entered = @ + 1]
    ELSE PullNmiStatus(s)

\* One iteration of the loop of run_with_callback / run_once_with_callback:
\* poll the PPU's interrupt; if it was pending enter the NMI and, in
\* run_once_with_callback only, return; then fetch, look up, execute,
\* advance, tick.  s1 is the machine after the poll, f the fetch, r the
\* machine at the end.  BRK returns from the loop right after the fetch; a
\* panic ends the process.
Step ==
    /\ halted = "no"
    /\ \E returns \in {nmi_interrupt /\ runner = "run_once"} :
       \E s1 \in {PollInterrupt(St)} :
       \E f \in {Fetch(s1)} :
       \E isbrk \in {~returns /\ IsOp(f.code, "BRK")} :
       \E r \in {IF returns THEN s1 ELSE ExecuteInstruction(f.s, f.code)} :
          /\ IF r.panic
             THEN /\ halted' = "panic"
                  /\ last' = "panic"
                  /\ UNCHANGED << register_a, register_x, register_y, status,
                        program_counter, stack_pointer, cpu_wram, prg_ram, prg_rom,
                        prg_rom_len, bus_cycles, strobe, button_index, button_status,
                        chr_rom, chr_ram, has_chr_ram, vram, palette_table, oam_data,
                        oam_addr, controller, ppu_mask, ppu_status, mirroring,
                        addr_hi, addr_lo, write_latch, scroll_x, scroll_y,
                        scroll_latch, internal_data_buffer, scanline, cycles,
                        nmi_interrupt, overflow_checks, ticked, branch_taken,
                        frames, fed, raised, raised_tick, raised_off, dropped,
                        entered, cpu_ticks, rises, signalled >>
             ELSE /\ Commit(r)
                  /\ halted' = IF isbrk THEN "brk" ELSE "no"
                  /\ last' = IF returns THEN "nmi"
                             ELSE IF isbrk THEN "brk" ELSE "instr"
          /\ nmi_taken' = nmi_interrupt
          /\ nmi_entry' = IF nmi_interrupt
                          THEN EntrySnapshot(PullNmiStatus(St), s1)
                          ELSE nmi_entry
          /\ fetched' = IF returns THEN NoFetch ELSE f.code
          /\ fetch_pc' = s1.program_counter
          /\ steps' = steps + 1
          /\ UNCHANGED << runner, probe >>

\* The host calls CPU::reset: before the first run, or after a run returned.
Reset ==
    /\ last \in {"init", "brk"}
    /\ Commit(ResetCpu(St))
    /\ halted' = "no"
    /\ last' = "reset"
    /\ nmi_taken' = FALSE
    /\ fetched' = NoFetch
    /\ UNCHANGED << runner, nmi_entry, fetch_pc, steps, probe >>

\* ======================================================== initial states

\* an array literal: the bytes of `bytes` from index `base` on
Image(base, bytes) ==
    [i \in {j \in base..(base + Len(bytes) - 1) : bytes[j - base + 1] # 0}
       |-> bytes[i - base + 1]]

\* CPU::new(Bus::new(cartridge)): the machine right after construction,
\* for a cartridge with a PRG ROM of `len` bytes, CHR ROM and `mirr`
Fresh(rom, len, mirr) ==
    [ register_a |-> 0, register_x |-> 0, register_y |-> 0,
      status |-> STATUS_RESET, program_counter |-> 0,
      stack_pointer |-> STACK_RESET,
      cpu_wram |-> EmptyArr, prg_ram |-> EmptyArr, prg_rom |-> rom,
      prg_rom_len |-> len, bus_cycles |-> BUS_CYCLES_INIT,
      strobe |-> FALSE, button_index |-> 0, button_status |-> 0,
      chr_rom |-> EmptyArr, chr_ram |-> EmptyArr, has_chr_ram |-> FALSE,
      vram |-> EmptyArr, palette_table |-> EmptyArr,
      oam_data |-> EmptyArr, oam_addr |-> 0,
      controller |-> 0, ppu_mask |-> 0, ppu_status |-> 0,
      mirroring |-> mirr,
      addr_hi |-> 0, addr_lo |-> 0, write_latch |-> TRUE,
      scroll_x |-> 0, scroll_y |-> 0, scroll_latch |-> FALSE,
      internal_data_buffer |-> 0,
      scanline |-> 0, cycles |-> PPU_CYCLES_INIT, nmi_interrupt |-> FALSE,
      overflow_checks |-> FALSE,
      ticked |-> 0, branch_taken |-> FALSE,
      frames |-> 0, fed |-> 0, raised |-> 0,
      raised_tick |-> 0, raised_off |-> FALSE, dropped |-> FALSE, entered |-> 0,
      cpu_ticks |-> 0, rises |-> 0, signalled |-> 0,
      panic |-> FALSE ]

\* the variables hold the machine `r`, and nothing has run yet
Load(r, rn) ==
    /\ register_a = r.register_a /\ register_x = r.register_x
    /\ register_y = r.register_y /\ status = r.status
    /\ program_counter = r.program_counter /\ stack_pointer = r.stack_pointer
    /\ cpu_wram = r.cpu_wram /\ prg_ram = r.prg_ram /\ prg_rom = r.prg_rom
    /\ prg_rom_len = r.prg_rom_len /\ bus_cycles = r.bus_cycles
    /\ strobe = r.strobe /\ button_index = r.button_index
    /\ button_status = r.button_status
    /\ chr_rom = r.chr_rom /\ chr_ram = r.chr_ram /\ has_chr_ram = r.has_chr_ram
    /\ vram = r.vram /\ palette_table = r.palette_table
    /\ oam_data = r.oam_data /\ oam_addr = r.oam_addr
    /\ controller = r.controller /\ ppu_mask = r.ppu_mask
    /\ ppu_status = r.ppu_status /\ mirroring = r.mirroring
    /\ addr_hi = r.addr_hi /\ addr_lo = r.addr_lo /\ write_latch = r.write_latch
    /\ scroll_x = r.scroll_x /\ scroll_y = r.scroll_y
    /\ scroll_latch = r.scroll_latch
    /\ internal_data_buffer = r.internal_data_buffer
    /\ scanline = r.scanline /\ cycles = r.cycles
    /\ nmi_interrupt = r.nmi_interrupt
    /\ overflow_checks = r.overflow_checks
    /\ ticked = r.ticked /\ branch_taken = r.branch_taken
    /\ frames = r.frames /\ fed = r.fed /\ raised = r.raised
    /\ raised_tick = r.raised_tick /\ raised_off = r.raised_off
    /\ dropped = r.dropped
    /\ entered = r.entered
    /\ cpu_ticks = r.cpu_ticks /\ rises = r.rises /\ signalled = r.signalled
    /\ runner = rn /\ halted = "no" /\ last = "init"
    /\ nmi_taken = FALSE
    /\ nmi_entry = EntrySnapshot(r, r)
    /\ fetched = NoFetch /\ fetch_pc = r.program_counter
    /\ steps = 0
    /\ probe = NoProbe

\* a byte placed before the run: by the cartridge image in the PRG ROM
\* window, by the host's bus.mem_write in work RAM
Poke(r, addr, v) ==
    IF addr >= PRG_ROM_START
    THEN [r EXCEPT !.prg_rom = ArrSet(@, PrgRomIndex(r, addr), v)]
    ELSE [r EXCEPT !.cpu_wram = ArrSet(@, addr, v)]

RECURSIVE PokeAll(_, _, _)
PokeAll(r, addrs, v) ==
    IF addrs = {} THEN r
    ELSE LET a == CHOOSE x \in addrs : TRUE
         IN PokeAll(Poke(r, a, v), addrs \ {a}, v)

\* ---- Spec: one instruction from host-chosen registers and memory, the
\* way tests/harte and cpu/trace.rs drive the CPU

\* the bound on loop iterations of a run
MaxSteps == 2

Codes == 0..255
\* low operand bytes: branch offsets 0, +16, -128, -1; zero-page addresses
OperandLo == {0, 16, 128, 255}
\* high operand bytes: work RAM, the PPU registers, the top of PRG ROM
OperandHi == {0, 32, 255}
\* 0x0600; 0x06FD, where a branch's next instruction starts the last byte
\* of a page; 0xFFFE, where the instruction wraps the address space
StartPCs == {1536, 1789, 65534}
\* work RAM cells holding data and zero-page pointers
DataCells == {0, 1, 15, 16, 17, 18, 127, 128, 129, 130, 255, 256}

RegisterFiles ==
    { [a |-> 0, x |-> 0, y |-> 0, p |-> 36, sp |-> 253, fill |-> 0,
       len |-> 32768, vec_lo |-> 0, vec_hi |-> 128, rn |-> "run"],
      [a |-> 128, x |-> 1, y |-> 1, p |-> 231, sp |-> 0, fill |-> 255,
       len |-> 16384, vec_lo |-> 52, vec_hi |-> 18, rn |-> "run_once"],
      [a |-> 127, x |-> 255, y |-> 16, p |-> 37, sp |-> 128, fill |-> 2,
       len |-> 32768, vec_lo |-> 255, vec_hi |-> 255, rn |-> "run_once"] }

Harness(code, lo, hi, pc0, f, oc) ==
    Poke(Poke(Poke(Poke(Poke(
        PokeAll([Fresh(EmptyArr, f.len, "Vertical") EXCEPT
                    !.register_a = f.a, !.register_x = f.x, !.register_y = f.y,
                    !.status = f.p, !.stack_pointer = f.sp,
                    !.program_counter = pc0, !.overflow_checks = oc],
                DataCells, f.fill),
        RESET_VECTOR, f.vec_lo), RESET_VECTOR + 1, f.vec_hi),
        pc0, code), Wrap16(pc0 + 1), lo), Wrap16(pc0 + 2), hi)

\* the operand bytes an instruction owns
OperandBytes(code) == IF HasOpcode(code) THEN Lookup(code).bytes - 1 ELSE 0

Init ==
    \E code \in Codes, lo \in OperandLo, hi \in OperandHi, pc0 \in StartPCs,
       f \in RegisterFiles, oc \in BOOLEAN :
        \* only the bytes the instruction owns vary; the build profile
        \* matters to JSR's unchecked addition alone
        LET Owned(n) ==
                /\ lo # 0 => n >= 1
                /\ hi # 0 => n = 2
        IN /\ Owned(OperandBytes(code))
           /\ oc => IsOp(code, "JSR")
           /\ Load(Harness(code, lo, hi, pc0, f, oc), f.rn)

Next ==
    \/ steps < MaxSteps /\ Step
    \/ Reset

Spec == Init /\ [][Next]_vars

\* ---- SpecADC: the instruction ADC #m, from every accumulator, every
\* operand byte and both carry-in values

\* iterations run
AdcSteps == 1

InitADC ==
    \E a \in 0..255, m \in 0..255, c \in BOOLEAN :
        Load(Poke(Poke([Fresh(EmptyArr, 32768, "Vertical") EXCEPT
                           !.register_a = a,
                           !.status = SetBit(STATUS_RESET, CARRY, c),
                           !.program_counter = 1536],
                       1536, 105), 1537, m),
             "run")

NextADC == steps < AdcSteps /\ Step

SpecADC == InitADC /\ [][NextADC]_vars

\* ---- SpecPPU: a freshly constructed PPU fed by tick(3) alone

\* the frames' worth of cycles fed
FramesFed == 3

\* n calls of tick(3)
RECURSIVE TickTimes(_, _)
TickTimes(s, n) == IF n = 0 THEN s ELSE TickTimes(PpuTick(s, 3), n - 1)

InitPPU == Load(Fresh(EmptyArr, 32768, "Horizontal"), "run")

\* one call of tick(3)
FeedTick ==
    /\ fed < FramesFed * (SCANLINE_CYCLES * FRAME_SCANLINES)
    /\ Commit(PpuTick(St, 3))
    /\ UNCHANGED << runner, halted, last, nmi_taken, nmi_entry, fetched,
                    fetch_pc, steps, probe >>

\* 31 calls of tick(3) in a row
FeedBurst ==
    /\ fed < FramesFed * (SCANLINE_CYCLES * FRAME_SCANLINES)
    /\ fed % 93 = 0
    /\ Commit(TickTimes(St, 31))
    /\ UNCHANGED << runner, halted, last, nmi_taken, nmi_entry, fetched,
                    fetch_pc, steps, probe >>

NextPPU == FeedTick \/ FeedBurst

SpecPPU == InitPPU /\ [][NextPPU]_vars

\* ---- SpecFrame: cartridges whose programs run through whole frames

\* the frames a run goes through
MaxFrames == 2

\* 8000  LDX #$01 / TXS / LDX #$00     stack pointer 0x01: an entry wraps it
\* 8005  LDA #ctrl / STA $2000         the control register
\* 800A  INC $0300,X / JMP $800A       the main loop
MainProgram(ctrl) ==
    << 162, 1, 154, 162, 0, 169, ctrl, 141, 0, 32, 254, 0, 3, 76, 10, 128 >>

\* 9000  RTI
HandlerReturn == << 64 >>

\* 9000  NOP / STX $2000 / STA $2000 / RTI   NMI-enable off, then on again
HandlerToggle == << 234, 142, 0, 32, 141, 0, 32, 64 >>

Programs ==
    { [ctrl |-> 128, handler |-> HandlerReturn],
      [ctrl |-> 0, handler |-> HandlerReturn],
      [ctrl |-> 128, handler |-> HandlerToggle] }

\* a 32K PRG ROM: the main program at 0x8000, the handler at 0x9000, the
\* vectors NMI -> 0x9000 and reset -> 0x8000 at 0xFFFA
CartridgeImage(p) ==
    Image(0, MainProgram(p.ctrl)) @@ Image(4096, p.handler)
        @@ Image(32762, << 0, 144, 0, 128 >>)

InitFrame ==
    \E p \in Programs, rn \in {"run", "run_once"} :
        Load(Fresh(CartridgeImage(p), 32768, "Horizontal"), rn)

NextFrame ==
    \/ frames < MaxFrames /\ Step
    \/ Reset

SpecFrame == InitFrame /\ [][NextFrame]_vars

\* ---- SpecWram: the host calls the bus itself, as the unit tests do:
\* a write to working RAM followed by reads of its images

\* the variables that make up the machine: a call that panics leaves them
machine == << register_a, register_x, register_y, status, program_counter,
              stack_pointer, cpu_wram, prg_ram, prg_rom, prg_rom_len, bus_cycles,
              strobe, button_index, button_status, chr_rom, chr_ram, has_chr_ram,
              vram, palette_table, oam_data, oam_addr, controller, ppu_mask,
              ppu_status, mirroring, addr_hi, addr_lo, write_latch, scroll_x,
              scroll_y, scroll_latch, internal_data_buffer, scanline, cycles,
              nmi_interrupt, overflow_checks, ticked, branch_taken, frames, fed,
              raised, raised_tick, raised_off, dropped, entered, cpu_ticks, rises,
              signalled >>

\* the machine after a host call that ended in `r`: a panic ends the process
Outcome(r) ==
    IF r.panic
    THEN halted' = "panic" /\ UNCHANGED machine
    ELSE Commit(r) /\ UNCHANGED halted

\* the reads made so far, `acc`, followed by the read of `addr` that left
\* the state `n`: a read that panics returns nothing
ReadNext(acc, addr, n) ==
    IF n.panic THEN [out |-> acc.out, s |-> n]
    ELSE [out |-> Append(acc.out, MemReadVal(acc.s, addr)), s |-> n]

\* mem_read of each address of `addrs` in turn; a panic ends the sequence
RECURSIVE ReadAll(_, _)
ReadAll(acc, addrs) ==
    IF addrs = << >> \/ acc.s.panic THEN acc
    ELSE ReadAll(ReadNext(acc, Head(addrs), MemReadSt(acc.s, Head(addrs))),
                 Tail(addrs))

\* a and the three addresses 0x0800, 0x1000 and 0x1800 above it
MirrorImages(a) == << a, a + 2048, a + 4096, a + 6144 >>

\* the calls of a run
MaxCalls == 2

\* the first and last cells of each 2K image of working RAM
BusAddrs == {0, 1, 2047, 2048, 2049, 4095, 4096, 6143, 6144, 8191}
BusValues == {0, 1, 255}

InitWram == Load(Fresh(EmptyArr, 32768, "Horizontal"), "run")

\* bus.mem_write(a, v), then bus.mem_read of a, a + 0x0800, a + 0x1000 and
\* a + 0x1800
WriteThenRead ==
    /\ halted = "no"
    /\ steps < MaxCalls
    /\ \E a \in BusAddrs, v \in BusValues :
       \E r \in {ReadAll([out |-> << >>, s |-> MemWrite(St, a, v)],
                         MirrorImages(a))} :
          /\ Outcome(r.s)
          /\ probe' = [op |-> "write_read", addr |-> a, value |-> v,
                       reads |-> MirrorImages(a), out |-> r.out,
                       ok |-> ~r.s.panic]
          /\ last' = "host"
          /\ steps' = steps + 1
          /\ UNCHANGED << runner, nmi_taken, nmi_entry, fetched, fetch_pc >>

NextWram == WriteThenRead

SpecWram == InitWram /\ [][NextWram]_vars

\* ---- SpecLoad: CPU::load_and_run on cartridges with various reset vectors,
\* from any registers and work RAM the host left before the call

\* CPU::load: mem_write(0x0600 + i, program[i]) for each byte, from byte i on
RECURSIVE LoadFrom(_, _, _)
LoadFrom(s, program, i) ==
    IF i >= Len(program) THEN s
    ELSE LoadFrom(MemWrite(s, Wrap16(1536 + i), program[i + 1]), program, i + 1)

\* CPU::load
LoadProgram(s, program) == LoadFrom(s, program, 0)

\* LDA #$05; TAX; INX; BRK
Lda5TaxInx == << 169, 5, 170, 232, 0 >>

\* the loop iterations of a run
MaxRun == 6

\* the reset vectors of the cartridges: 0 (the empty PRG ROM of
\* Cartridge::default and create_test_cartridge), the load address 0x0600,
\* the bytes around it, the start of PRG ROM and the vector's own address
ResetVectors == {0, 1534, 1535, 1536, 1537, 1538, 1539, 1540, 32768, 65532}

InitLoad ==
    \E vec \in ResetVectors, f \in RegisterFiles :
        Load(Poke(Poke(PokeAll([Fresh(EmptyArr, f.len, "Horizontal") EXCEPT
                                   !.register_a = f.a, !.register_x = f.x,
                                   !.register_y = f.y, !.status = f.p,
                                   !.stack_pointer = f.sp],
                               DataCells, f.fill),
                       RESET_VECTOR, vec % 256), RESET_VECTOR + 1, vec \div 256),
             "run")

\* load_and_run up to its call of run: load(program), then reset()
LoadAndReset ==
    /\ last = "init"
    /\ Commit(ResetCpu(LoadProgram(St, Lda5TaxInx)))
    /\ halted' = "no"
    /\ last' = "load"
    /\ nmi_taken' = FALSE
    /\ fetched' = NoFetch
    /\ UNCHANGED << runner, nmi_entry, fetch_pc, steps, probe >>

\* load_and_run: load, reset, then the loop of run until it returns
NextLoad ==
    \/ LoadAndReset
    \/ last # "init" /\ steps < MaxRun /\ Step

SpecLoad == InitLoad /\ [][NextLoad]_vars

\* ---- SpecCart: Cartridge::new on iNES files, whole and truncated

\* INES_IDENTIFIER
INES_IDENTIFIER == << 78, 69, 83, 26 >>

\* A file is its length and its first (at most 16) bytes; the bytes after
\* the header are all zero, as in create_test_cartridge.  raw[i]:
RawByte(raw, i) == raw.header[i + 1]

\* a call that panicked on an index or a slice outside the file, having
\* touched the `read` first bytes
CartridgePanic(read) ==
    [result |-> "panic", message |-> "", read |-> read]

\* Err(message), returned after the `read` first bytes were touched
CartridgeErr(message, read) ==
    [result |-> "Err", message |-> message, read |-> read]

\* the mirroring match on (four_screen, vertical_mirroring) of raw[6]
ScreenMirroring(flags6) ==
    IF BitAnd(flags6, 8) # 0 THEN "FourScreen"
    ELSE IF BitAnd(flags6, 1) # 0 THEN "Vertical" ELSE "Horizontal"

\* the Ok(Cartridge { .. }) tail: the two slices, from prg_rom_start on
CartridgeSlices(raw, prg_rom_start, prg_rom_size, chr_rom_size) ==
    IF prg_rom_start + prg_rom_size > raw.len
    THEN CartridgePanic(16)
    ELSE IF prg_rom_start + prg_rom_size + chr_rom_size > raw.len
    THEN CartridgePanic(prg_rom_start + prg_rom_size)
    ELSE [result |-> "Ok", message |-> "",
          read |-> prg_rom_start + prg_rom_size + chr_rom_size,
          prg_rom_size |-> prg_rom_size, chr_rom_size |-> chr_rom_size,
          mapper |-> BitOr(BitAnd(RawByte(raw, 7), 240), RawByte(raw, 6) \div 16),
          screen_mirroring |-> ScreenMirroring(RawByte(raw, 6))]

\* Cartridge::new with the version check left out
CartridgeNewAnyVersion(raw) ==
    IF raw.len < 4 THEN CartridgePanic(raw.len)
    ELSE IF SubSeq(raw.header, 1, 4) # INES_IDENTIFIER
    THEN CartridgeErr("File is not in iNES file format", 4)
    ELSE IF raw.len < 8 THEN CartridgePanic(raw.len)
    ELSE CartridgeSlices(raw,
             16 + (IF BitAnd(RawByte(raw, 6), 4) = 4 THEN 512 ELSE 0),
             RawByte(raw, 4) * 16384, RawByte(raw, 5) * 8192)

\* Cartridge::new
CartridgeNew(raw) ==
    IF raw.len < 4 THEN CartridgePanic(raw.len)
    ELSE IF SubSeq(raw.header, 1, 4) # INES_IDENTIFIER
    THEN CartridgeErr("File is not in iNES file format", 4)
    ELSE IF raw.len < 8 THEN CartridgePanic(raw.len)
    ELSE IF BitAnd(RawByte(raw, 7) \div 4, 3) # 0
    THEN CartridgeErr("NES2.0 format is not supported", 8)
    ELSE CartridgeSlices(raw,
             16 + (IF BitAnd(RawByte(raw, 6), 4) = 4 THEN 512 ELSE 0),
             RawByte(raw, 4) * 16384, RawByte(raw, 5) * 8192)

\* the identifiers tried: the right one, and one with each byte wrong
Identifiers ==
    { INES_IDENTIFIER, << 0, 0, 0, 0 >>, << 77, 69, 83, 26 >>, << 78, 69, 83, 0 >> }
\* PRG pages, CHR pages, flags 6 and flags 7 of the headers tried
PrgPages == {1, 2}
ChrPages == {0, 1}
Flags6 == {0, 1, 4, 8, 49}
Flags7 == {0, 4, 8, 12, 16, 243}
\* file lengths: cut inside the identifier, the header and the ROM, and whole
FileLengths == {3, 4, 7, 8, 16, 16400, 24592, 41488}

Headers ==
    { id \o << prg, chr, f6, f7, 0, 0, 0, 0, 0, 0, 0, 0 >> :
        id \in Identifiers, prg \in PrgPages, chr \in ChrPages,
        f6 \in Flags6, f7 \in Flags7 }

RawFiles ==
    { [len |-> n, header |-> SubSeq(h, 1, IF n < 16 THEN n ELSE 16)] :
        h \in Headers, n \in FileLengths }

InitCart == Load(Fresh(EmptyArr, 32768, "Horizontal"), "run")

\* The host reads a file and calls Cartridge::new(..).unwrap(); with
\* Ok(cartridge) it builds CPU::new(Bus::new(cartridge)), otherwise the
\* unwrap (or the call itself) panics and there is no machine.
InsertCartridge ==
    /\ last = "init"
    /\ \E raw \in RawFiles :
       \E c \in {CartridgeNew(raw)} :
          /\ probe' = [op |-> "cartridge", raw |-> raw, result |-> c]
          /\ IF c.result = "Ok"
             THEN /\ Commit([Fresh(EmptyArr, c.prg_rom_size, c.screen_mirroring)
                                EXCEPT !.has_chr_ram = (c.chr_rom_size = 0)])
                  /\ halted' = "no"
             ELSE /\ UNCHANGED machine
                  /\ halted' = "panic"
          /\ last' = "cartridge"
          /\ UNCHANGED << runner, nmi_taken, nmi_entry, fetched, fetch_pc, steps >>

NextCart == InsertCartridge

SpecCart == InitCart /\ [][NextCart]_vars

\* ---- SpecRegs: the host drives the PPU registers through the bus

\* the registers a register access can change, as they are before it
Registers(s) ==
    [ppu_status |-> s.ppu_status, controller |-> s.controller,
     nmi_interrupt |-> s.nmi_interrupt, write_latch |-> s.write_latch,
     scroll_latch |-> s.scroll_latch, addr |-> PpuAddrGet(s)]

\* the access before the last one: what it was and the latch it found
Previous(p) ==
    IF p.op \in {"reg_write", "reg_read"}
    THEN [op |-> p.op, addr |-> p.addr, value |-> p.value,
          latch |-> p.before.write_latch]
    ELSE [op |-> "none", addr |-> 0, value |-> 0, latch |-> TRUE]

\* n calls of Bus::tick(cycles)
RECURSIVE BusTickTimes(_, _, _)
BusTickTimes(s, cpu_cycles, n) ==
    IF n = 0 THEN s ELSE BusTickTimes(Tick(s, cpu_cycles), cpu_cycles, n - 1)

\* frames the host lets pass, and register accesses it makes
RegFrames == 1
MaxAccesses == 3

\* bytes written to PPUADDR (0x2006), PPUCTRL (0x2000) and PPUDATA (0x2007)
AddrBytes == {0, 1, 253, 255}
CtrlBytes == {0, 4, 128}
DataBytes == {7}
RegWrites ==
    ({8198} \X AddrBytes) \cup ({8192} \X CtrlBytes) \cup ({8199} \X DataBytes)
\* registers read: PPUSTATUS (0x2002) and PPUDATA (0x2007)
RegReads == {8194, 8199}

InitRegs == Load(Fresh(EmptyArr, 32768, "Horizontal"), "run")

\* bus.mem_write(addr, value) on a PPU register
HostWrite ==
    /\ halted = "no"
    /\ steps < MaxAccesses
    /\ \E w \in RegWrites :
          /\ Outcome(MemWrite(St, w[1], w[2]))
          /\ probe' = [op |-> "reg_write", addr |-> w[1], value |-> w[2],
                       before |-> Registers(St), prev |-> Previous(probe)]
    /\ last' = "host"
    /\ steps' = steps + 1
    /\ UNCHANGED << runner, nmi_taken, nmi_entry, fetched, fetch_pc >>

\* bus.mem_read(addr) on a PPU register
HostRead ==
    /\ halted = "no"
    /\ steps < MaxAccesses
    /\ \E a \in RegReads :
          /\ Outcome(MemReadSt(St, a))
          /\ probe' = [op |-> "reg_read", addr |-> a, value |-> MemReadVal(St, a),
                       before |-> Registers(St), prev |-> Previous(probe)]
    /\ last' = "host"
    /\ steps' = steps + 1
    /\ UNCHANGED << runner, nmi_taken, nmi_entry, fetched, fetch_pc >>

\* 64 calls of bus.tick(113), each a scanline less two PPU cycles
HostTicks ==
    /\ halted = "no"
    /\ frames < RegFrames
    /\ \E t1 \in {BusTickTimes(St, 113, 16)} :
       \E t2 \in {BusTickTimes(t1, 113, 16)} :
       \E t3 \in {BusTickTimes(t2, 113, 16)} :
          Commit(BusTickTimes(t3, 113, 16))
    /\ last' = "tick"
    /\ UNCHANGED << runner, halted, nmi_taken, nmi_entry, fetched, fetch_pc,
                    steps, probe >>

\* bus.pull_nmi_status(), as the run loop does before each instruction
HostPull ==
    /\ halted = "no"
    /\ nmi_interrupt
    /\ Commit(PullNmiStatus(St))
    /\ last' = "pull"
    /\ UNCHANGED << runner, halted, nmi_taken, nmi_entry, fetched, fetch_pc,
                    steps, probe >>

NextRegs == HostWrite \/ HostRead \/ HostTicks \/ HostPull

SpecRegs == InitRegs /\ [][NextRegs]_vars

\* ---- SpecData: the host drives the scroll register and the data port

\* the port registers as they are before an access
PortState(s) ==
    [addr |-> PpuAddrGet(s), buffer |-> s.internal_data_buffer,
     controller |-> s.controller, scroll_x |-> s.scroll_x,
     scroll_y |-> s.scroll_y]

\* the last byte written through the data port, and the address it went to
LastDataWrite(p) ==
    IF p.op \in {"set_addr", "set_scroll", "data_write", "data_read", "ctrl"}
    THEN p.wrote ELSE [addr |-> 65535, value |-> 0]

\* the access before the last one
PreviousPort(p) ==
    IF p.op \in {"set_addr", "set_scroll", "data_write", "data_read", "ctrl"}
    THEN [op |-> p.op, addr |-> p.before.addr]
    ELSE [op |-> "none", addr |-> 0]

\* bus.mem_read(0x2002), then bus.mem_write(reg, a), bus.mem_write(reg, b)
StatusThenTwoWrites(s, reg, a, b) ==
    MemWrite(MemWrite(MemReadSt(s, 8194), reg, a), reg, b)

\* a CHR ROM with bytes at 0x0000, 0x0001 and 0x0020
ChrImage == [j \in {0, 1, 32} |-> j + 65]

\* data-port accesses the host makes
MaxPort == 4

\* addresses set: pattern memory, nametables 0 and 1, the palette and two
\* of its aliases
PortAddrs == {0, 8192, 9216, 16128, 16144, 16132, 16148}
PortBytes == {7, 9}
PortCtrl == {0, 4}
ScrollPairs == {<< 1, 2 >>, << 200, 3 >>}

InitData ==
    \E mirr \in {"Horizontal", "Vertical"}, ram \in BOOLEAN :
        Load([Fresh(EmptyArr, 32768, mirr)
                 EXCEPT !.chr_rom = IF ram THEN EmptyArr ELSE ChrImage,
                        !.has_chr_ram = ram], "run")

\* the host points the address register at `a`
SetAddr ==
    /\ halted = "no"
    /\ steps < MaxPort
    /\ \E a \in PortAddrs :
          /\ Outcome(StatusThenTwoWrites(St, 8198, a \div 256, a % 256))
          /\ probe' = [op |-> "set_addr", value |-> a, before |-> PortState(St),
                       prev |-> PreviousPort(probe), wrote |-> LastDataWrite(probe)]
    /\ last' = "host"
    /\ steps' = steps + 1
    /\ UNCHANGED << runner, nmi_taken, nmi_entry, fetched, fetch_pc >>

\* the host sets the scroll: a status read, then X, then Y
SetScroll ==
    /\ halted = "no"
    /\ steps < MaxPort
    /\ \E ab \in ScrollPairs :
          /\ Outcome(StatusThenTwoWrites(St, 8197, ab[1], ab[2]))
          /\ probe' = [op |-> "set_scroll", value |-> ab, before |-> PortState(St),
                       prev |-> PreviousPort(probe), wrote |-> LastDataWrite(probe)]
    /\ last' = "host"
    /\ steps' = steps + 1
    /\ UNCHANGED << runner, nmi_taken, nmi_entry, fetched, fetch_pc >>

\* bus.mem_write(0x2000, value)
SetCtrl ==
    /\ halted = "no"
    /\ steps < MaxPort
    /\ \E v \in PortCtrl :
          /\ Outcome(MemWrite(St, 8192, v))
          /\ probe' = [op |-> "ctrl", value |-> v, before |-> PortState(St),
                       prev |-> PreviousPort(probe), wrote |-> LastDataWrite(probe)]
    /\ last' = "host"
    /\ steps' = steps + 1
    /\ UNCHANGED << runner, nmi_taken, nmi_entry, fetched, fetch_pc >>

\* bus.mem_write(0x2007, value)
DataWrite ==
    /\ halted = "no"
    /\ steps < MaxPort
    /\ \E v \in PortBytes :
          /\ Outcome(MemWrite(St, 8199, v))
          /\ probe' = [op |-> "data_write", value |-> v, before |-> PortState(St),
                       prev |-> PreviousPort(probe),
                       wrote |-> [addr |-> PpuAddrGet(St), value |-> v]]
    /\ last' = "host"
    /\ steps' = steps + 1
    /\ UNCHANGED << runner, nmi_taken, nmi_entry, fetched, fetch_pc >>

\* bus.mem_read(0x2007)
DataRead ==
    /\ halted = "no"
    /\ steps < MaxPort
    /\ Outcome(MemReadSt(St, 8199))
    /\ probe' = [op |-> "data_read", value |-> MemReadVal(St, 8199),
                 before |-> PortState(St),
                 prev |-> PreviousPort(probe), wrote |-> LastDataWrite(probe)]
    /\ last' = "host"
    /\ steps' = steps + 1
    /\ UNCHANGED << runner, nmi_taken, nmi_entry, fetched, fetch_pc >>

NextData == SetAddr \/ SetScroll \/ SetCtrl \/ DataWrite \/ DataRead

SpecData == InitData /\ [][NextData]_vars

\* ---- SpecMirror: PPU::mirror_vram_addr on each mirroring mode

\* Mirroring (src/src/cartridge.rs)
MirroringModes == {"Horizontal", "Vertical", "FourScreen"}

\* offsets within a nametable: its ends, the attribute table, the middle
NametableOffsets == {0, 1, 2, 31, 32, 511, 512, 959, 960, 1022, 1023}

\* the addresses of the four logical nametables, 0x2000..0x2FFF
NametableAddrs ==
    { 8192 + nt * NAMETABLE_SIZE + off : nt \in 0..3, off \in NametableOffsets }

InitMirror ==
    \E mirr \in MirroringModes : Load(Fresh(EmptyArr, 32768, mirr), "run")

\* self.mirror_vram_addr(addr) on the machine's PPU
MirrorCall ==
    /\ halted = "no"
    /\ \E a \in NametableAddrs :
          probe' = [op |-> "mirror", addr |-> a, out |-> MirrorVramAddr(St, a)]
    /\ last' = "host"
    /\ UNCHANGED machine
    /\ UNCHANGED << runner, halted, nmi_taken, nmi_entry, fetched, fetch_pc, steps >>

NextMirror == MirrorCall

SpecMirror == InitMirror /\ [][NextMirror]_vars

\* ---- SpecPad: the host presses buttons, the program strobes and reads 0x4016

\* what the accesses so far amount to: whether the last write had bit 0
\* set, and how many reads followed a write of 1 and then a write of 0
\* (-1 when there was no such pair of writes, or the strobe is high again)
PadHistory(p) ==
    IF p.op \in {"pad_write", "pad_read"}
    THEN [high |-> p.high, since |-> p.since]
    ELSE [high |-> FALSE, since |-> -1]

\* the joypad as it is before an access
PadState(s) ==
    [strobe |-> s.strobe, button_index |-> s.button_index,
     button_status |-> s.button_status]

\* accesses to 0x4016
MaxPad == 12

\* bytes written to 0x4016; buttons the host's key map changes: A, Start, Right
PadBytes == {0, 1, 2, 255}
PadButtons == {BUTTON_A, START, RIGHT}

InitPad == Load(Fresh(EmptyArr, 32768, "Horizontal"), "run")

\* bus.joypad.button_status.set(button, pressed), from the key polling
Press ==
    /\ halted = "no"
    /\ \E b \in PadButtons, pressed \in BOOLEAN :
          Commit([St EXCEPT !.button_status = SetBit(@, b, pressed)])
    /\ last' = "press"
    /\ UNCHANGED << runner, halted, nmi_taken, nmi_entry, fetched, fetch_pc,
                    steps, probe >>

\* bus.mem_write(0x4016, value)
PadWrite ==
    /\ halted = "no"
    /\ steps < MaxPad
    /\ \E v \in PadBytes :
          /\ Outcome(MemWrite(St, 16406, v))
          /\ probe' = [op |-> "pad_write", value |-> v, before |-> PadState(St),
                       high |-> (v % 2 = 1),
                       since |-> IF v % 2 = 1 THEN -1
                                 ELSE IF PadHistory(probe).high THEN 0
                                 ELSE PadHistory(probe).since]
    /\ last' = "host"
    /\ steps' = steps + 1
    /\ UNCHANGED << runner, nmi_taken, nmi_entry, fetched, fetch_pc >>

\* bus.mem_read(0x4016)
PadRead ==
    /\ halted = "no"
    /\ steps < MaxPad
    /\ Outcome(MemReadSt(St, 16406))
    /\ probe' = [op |-> "pad_read", value |-> MemReadVal(St, 16406),
                 before |-> PadState(St),
                 high |-> PadHistory(probe).high,
                 since |-> IF PadHistory(probe).since >= 0
                           THEN PadHistory(probe).since + 1 ELSE -1]
    /\ last' = "host"
    /\ steps' = steps + 1
    /\ UNCHANGED << runner, nmi_taken, nmi_entry, fetched, fetch_pc >>

NextPad == Press \/ PadWrite \/ PadRead

SpecPad == InitPad /\ [][NextPad]_vars

\* ---- SpecDma: the program fills RAM, sets OAMADDR and writes 0x4014

\* a PRG ROM with bytes at the ends of its first page and in its last
\* page, for a 16 KB and a 32 KB cartridge
DmaRom(len) == [j \in {0, 1, 255, len - 256, len - 1} |-> (j % 251) + 1]

\* writes to the bus before the transfer, and the pages transferred:
\* working RAM and its mirrors, the PPU registers and their mirrors, the
\* APU and I/O page, unmapped space, PRG RAM, PRG ROM
MaxDma == 3
DmaPokes == {<< 512, 17 >>, << 767, 34 >>, << 2560, 51 >>, << 24576, 68 >>}
OamAddrs == {0, 1, 255}
DmaPages == {0, 2, 7, 10, 31, 32, 63, 64, 65, 96, 128, 191, 255}

InitDma ==
    \E len \in {16384, 32768} :
        Load(Fresh(DmaRom(len), len, "Horizontal"), "run")

\* bus.mem_write(addr, value) into working RAM or PRG RAM
DmaPoke ==
    /\ halted = "no"
    /\ steps < MaxDma
    /\ \E w \in DmaPokes :
          /\ Outcome(MemWrite(St, w[1], w[2]))
          /\ probe' = [op |-> "poke", addr |-> w[1], value |-> w[2]]
    /\ last' = "host"
    /\ steps' = steps + 1
    /\ UNCHANGED << runner, nmi_taken, nmi_entry, fetched, fetch_pc >>

\* bus.mem_write(0x2003, value)
SetOamAddr ==
    /\ halted = "no"
    /\ steps < MaxDma
    /\ \E v \in OamAddrs :
          /\ Outcome(MemWrite(St, 8195, v))
          /\ probe' = [op |-> "oam_addr", addr |-> 8195, value |-> v]
    /\ last' = "host"
    /\ steps' = steps + 1
    /\ UNCHANGED << runner, nmi_taken, nmi_entry, fetched, fetch_pc >>

\* bus.mem_write(0x4014, page)
DmaWrite ==
    /\ halted = "no"
    /\ steps < MaxDma
    /\ \E page \in DmaPages :
       \E r \in {MemWrite(St, 16404, page)} :
          /\ Outcome(r)
          /\ probe' = [op |-> "dma", addr |-> 16404, value |-> page,
                       oam_addr |-> oam_addr, cpu_ticks |-> cpu_ticks,
                       ok |-> ~r.panic]
    /\ last' = "host"
    /\ steps' = steps + 1
    /\ UNCHANGED << runner, nmi_taken, nmi_entry, fetched, fetch_pc >>

NextDma == DmaPoke \/ SetOamAddr \/ DmaWrite

SpecDma == InitDma /\ [][NextDma]_vars

\* ---- SpecBus: single reads and writes over the whole bus decode

\* accesses made
MaxBus == 2

\* working RAM, each PPU register, mirrors of them, the DMA and joypad
\* registers, unmapped space, PRG RAM and the ends of PRG ROM
DecodeAddrs ==
    {0, 2047, 8192, 8193, 8194, 8195, 8196, 8197, 8198, 8199,
     8200, 8202, 8205, 16376, 16378, 16383, 16384, 16404, 16406, 16407,
     24576, 32767, 32768, 49152, 65535}
DecodeBytes == {0, 129}

InitBus ==
    \E len \in {16384, 32768} :
        Load(Fresh(DmaRom(len), len, "Horizontal"), "run")

\* bus.mem_write(addr, value)
BusWrite ==
    /\ halted = "no"
    /\ steps < MaxBus
    /\ \E a \in DecodeAddrs, v \in DecodeBytes :
       \E r \in {MemWrite(St, a, v)} :
          /\ Outcome(r)
          /\ probe' = [op |-> "bus_write", addr |-> a, value |-> v,
                       ok |-> ~r.panic, rom |-> ArrGet(prg_rom, PrgRomIndex(St, a))]
    /\ last' = "host"
    /\ steps' = steps + 1
    /\ UNCHANGED << runner, nmi_taken, nmi_entry, fetched, fetch_pc >>

\* bus.mem_read(addr)
BusRead ==
    /\ halted = "no"
    /\ steps < MaxBus
    /\ \E a \in DecodeAddrs :
       \E r \in {MemReadSt(St, a)} :
          /\ Outcome(r)
          /\ probe' = [op |-> "bus_read", addr |-> a, value |-> MemReadVal(St, a),
                       ok |-> ~r.panic, rom |-> 0]
    /\ last' = "host"
    /\ steps' = steps + 1
    /\ UNCHANGED << runner, nmi_taken, nmi_entry, fetched, fetch_pc >>

NextBus == BusWrite \/ BusRead

SpecBus == InitBus /\ [][NextBus]_vars

\* ============================================================ properties

\* a byte as the bus reads it, the read's side effects left out
Peek(addr) == MemReadVal(St, addr)

\* the table entry of the opcode the last iteration fetched
Entry == Lookup(fetched)

\* the last iteration ran an instruction to its end, with no NMI entry
Completed == last = "instr" /\ ~nmi_taken

\* C1: after CPU::reset, whatever the CPU state before, A = X = Y = 0,
\* SP = 0xFD, the status has interrupt-disable and bit 5 set, and PC is the
\* little-endian word the bus reads at 0xFFFC/0xFFFD.
C1_ResetState ==
    last = "reset" =>
        /\ register_a = 0 /\ register_x = 0 /\ register_y = 0
        /\ stack_pointer = 253
        /\ Contains(status, INTERRUPT_DISABLE) /\ Contains(status, BREAK2)
        /\ program_counter = Peek(65532) + 256 * Peek(65533)

\* a reset from a state with other registers, through the mirrored 16K ROM
C1_Witness ==
    last = "reset" /\ prg_rom_len = 16384 /\ program_counter = 4660

\* C2: an instruction run with no NMI pending leaves PC = PC_before +
\* entry.bytes (mod 2^16), unless it is JMP, JSR, RTS, RTI or a taken branch.
C2_PcAdvance ==
    (/\ last \in {"instr", "brk"} /\ ~nmi_taken
     /\ Entry.op \notin {"JMP", "JSR", "RTS", "RTI"}
     /\ ~branch_taken)
        => program_counter = (fetch_pc + Entry.bytes) % 65536

\* a three-byte instruction at 0xFFFE, whose end wraps the address space
C2_Witness ==
    /\ Completed /\ fetch_pc = 65534
    /\ Entry.bytes = 3 /\ Entry.op \notin {"JMP", "JSR"}
    /\ program_counter = 1

\* the operations whose arm asks for the page-cross tick: the reading
\* families (run_with_callback passes `true`; lda, ldx, ldy, nop always tick)
PageCrossSensitive ==
    {"ADC", "AND", "CMP", "CPX", "CPY", "EOR", "LAX", "LDA", "LDX", "LDY",
     "NOP", "ORA", "SBC"}

\* the 16-bit operand of the instruction at pc
OperandWordAt(pc) == Peek(Wrap16(pc + 1)) + 256 * Peek(Wrap16(pc + 2))

\* the zero-page pointer the operand byte of the instruction at pc names
PointerAt(pc) ==
    Peek(Peek(Wrap16(pc + 1))) + 256 * Peek((Peek(Wrap16(pc + 1)) + 1) % 256)

\* adding the index to base changes the high byte
HighByteChanges(base, index) == (base \div 256) # (((base + index) % 65536) \div 256)

\* resolving the operand address of the instruction at pc changed the high
\* byte: Absolute_X, Absolute_Y and Indirect_Y only
HighByteChanged(mode, pc) ==
    CASE mode = "Absolute_X" -> HighByteChanges(OperandWordAt(pc), register_x)
      [] mode = "Absolute_Y" -> HighByteChanges(OperandWordAt(pc), register_y)
      [] mode = "Indirect_Y" -> HighByteChanges(PointerAt(pc), register_y)
      [] OTHER -> FALSE

\* entry.cycles, plus 1 for a sensitive family whose operand crossed a page
ExpectedCycles ==
    Entry.cycles
        + (IF /\ Entry.op \in PageCrossSensitive
              /\ HighByteChanged(Entry.addressing_mode, fetch_pc)
           THEN 1 ELSE 0)

\* C3 (as the code has it): every non-branch instruction other than BRK
\* ticks the bus by entry.cycles, plus exactly 1 iff its family is
\* page-crossing-sensitive and resolving its Absolute_X, Absolute_Y or
\* Indirect_Y operand changed the high byte; BRK returns from the loop
\* before the tick and ticks nothing.
C3_Cycles ==
    /\ (Completed /\ Entry.op \notin BranchOps) => ticked = ExpectedCycles
    /\ last = "brk" => ticked = 0

\* LDA $00FF,X with X = 1: four cycles and one for the page crossed
C3_Witness ==
    /\ Completed /\ Entry.op = "LDA" /\ Entry.addressing_mode = "Absolute_X"
    /\ HighByteChanged("Absolute_X", fetch_pc)
    /\ ticked = 5

\* C3 as stated: every non-branch opcode ticks entry.cycles (plus the
\* page-cross cycle), never fewer.
C3_AsStated ==
    (/\ last \in {"instr", "brk"} /\ ~nmi_taken
     /\ Entry.op \notin BranchOps)
        => ticked = ExpectedCycles

\* C4: a branch not taken costs entry.cycles, a taken branch one more, and
\* one further cycle iff the target is on another page than the instruction
\* following the branch (opcode address + 2).
C4_BranchTiming ==
    (Completed /\ Entry.op \in BranchOps) =>
        ticked = Entry.cycles
                   + (IF branch_taken THEN 1 ELSE 0)
                   + (IF /\ branch_taken
                         /\ (program_counter \div 256)
                                # (((fetch_pc + 2) % 65536) \div 256)
                      THEN 1 ELSE 0)

\* C5: for every accumulator A, operand M and carry-in C, ADC leaves
\* A = (A + M + C) mod 256, Carry set iff A + M + C > 0xFF, and Overflow
\* set iff A and M have the same sign bit and the result's differs.
C5_Adc ==
    [][fetched' = 105 =>
        LET a == register_a
            m == Peek(Wrap16(program_counter + 1))
            sum == register_a + Peek(Wrap16(program_counter + 1))
                     + (IF Contains(status, CARRY) THEN 1 ELSE 0)
        IN /\ register_a' = sum % 256
           /\ Contains(status', CARRY) <=> sum > 255
           /\ Contains(status', OVERFLOW) <=>
                  /\ a \div 128 = m \div 128
                  /\ (sum % 256) \div 128 # a \div 128]_vars

\* 0x80 + 0x80: the sum is 0 with Carry and Overflow both set
C5_Witness ==
    /\ fetched = 105 /\ Peek(1537) = 128 /\ register_a = 0
    /\ Contains(status, CARRY) /\ Contains(status, OVERFLOW)

C7_NmiRaising ==
    [][/\ raised_tick' <= 1
       /\ ~raised_off'
       /\ (frames' = frames /\ scanline < 241 /\ scanline' >= 241)
              => (raised_tick' = 1 <=> Contains(controller', GENERATE_NMI))
       /\ (frames' = frames /\ raised_tick' # raised_tick)
              => (scanline < 241 /\ scanline' = 241)]_vars

\* a frame in which the flag was set by tick and again by a control write
C7_Witness == raised_tick = 1 /\ raised >= 2

\* C7 as stated: the flag goes from clear to set exactly once a frame, on
\* the tick into scanline 241.
C7_AsStated == raised <= 1 /\ raised = raised_tick

\* C8: each raising of the flag leads to at most one NMI entry, and the flag
\* is clear after every step in which the scanline wrapped from 261 to 0,
\* consumed or not.
C8_ConsumedOnce ==
    [][/\ entered' <= 1
       /\ frames' # frames => ~nmi_interrupt']_vars

\* the end of a frame cleared a flag the CPU had not consumed
C8_Witness == dropped /\ entered = 0 /\ ~nmi_interrupt /\ frames >= 1

\* C9: NMI entry pushes PC high, PC low, then the status with Break clear
\* and Break2 set; SP goes down by 3 (mod 256); interrupt-disable is set in
\* the live status, its other flags unchanged; the bus is ticked for the
\* entry latency (2 cycles); PC is the little-endian vector at 0xFFFA.
C9_NmiEntry ==
    nmi_taken =>
        /\ nmi_entry.cell_hi = nmi_entry.pc0 \div 256
        /\ nmi_entry.cell_lo = nmi_entry.pc0 % 256
        /\ nmi_entry.cell_flags =
               nmi_entry.status0
                 - 16 * ((nmi_entry.status0 \div 16) % 2)
                 + 32 * (1 - ((nmi_entry.status0 \div 32) % 2))
        /\ nmi_entry.sp = (nmi_entry.sp0 + 253) % 256
        /\ nmi_entry.status =
               nmi_entry.status0 + 4 * (1 - ((nmi_entry.status0 \div 4) % 2))
        /\ nmi_entry.ticked = 2
        /\ nmi_entry.pc = Peek(65530) + 256 * Peek(65531)

\* an entry from the main loop with SP = 0x01: the pushes wrap the stack page
C9_Witness ==
    /\ nmi_taken /\ nmi_entry.sp0 = 1 /\ nmi_entry.sp = 254
    /\ nmi_entry.pc = 36864 /\ nmi_entry.pc0 \div 256 = 128

\* C10: an iteration that finds the interrupt pending makes the NMI entry
\* only and returns without fetching an instruction.
C10_EntryOnly == nmi_taken => fetched = NoFetch

\* C11: every Bus::tick(n) advances the PPU by exactly 3n PPU cycles: the
\* PPU cycles fed are 3 times the CPU cycles ticked, and the PPU stands 3
\* positions further in its 341 * 262 frame for every CPU cycle since
\* construction (where it stood at scanline 0, cycle 21).
C11_ClockRatio ==
    /\ fed = 3 * cpu_ticks
    /\ scanline * 341 + cycles = (21 + 3 * cpu_ticks) % (341 * 262)

\* the two cycles of an NMI entry in the second frame
C11_Witness ==
    /\ frames = 1 /\ last = "nmi" /\ ticked = 2
    /\ cpu_ticks > 29780 /\ scanline >= 241

\* C12: Bus::tick accumulates the bus cycle counter: bus.cycles is its
\* initial value 7 plus the sum of all n passed to tick.
C12_CyclesAccumulate == bus_cycles = BUS_CYCLES_INIT + cpu_ticks

\* C13: Bus::tick signals an event to its observer exactly once for every
\* clear-to-set transition of the PPU interrupt-pending flag inside a tick,
\* and signals nothing otherwise: the events signalled are the rises.
C13_SignalledOncePerRise == signalled = rises

\* C14 (as the code has it): after write(a, v) with a in working RAM, every
\* one of the reads of a, a + 0x0800, a + 0x1000 and a + 0x1800 that is
\* still an address of working RAM (at most 0x1FFF) returns v; for a in
\* 0x0000..0x07FF that is all four of them.  An image above 0x1FFF is a PPU
\* register: its read returns something else or is a fatal access.
C14_WramMirroring ==
    probe.op = "write_read" =>
        /\ \A i \in 1..Len(probe.out) :
              probe.reads[i] <= WRAM_END => probe.out[i] = probe.value
        /\ probe.addr < 2048 => (probe.ok /\ Len(probe.out) = 4)
        /\ Len(probe.out) >= 1

\* 0xFF written at 0x07FF and read back at 0x07FF, 0x0FFF, 0x17FF, 0x1FFF
C14_Witness ==
    /\ probe.op = "write_read" /\ probe.addr = 2047 /\ probe.value = 255
    /\ probe.out = << 255, 255, 255, 255 >>
    /\ cpu_wram[2047] = 255

\* C14 as stated: for any a in 0x0000..0x1FFF the four reads all return v.
C14_AsStated ==
    probe.op = "write_read" =>
        /\ probe.ok /\ Len(probe.out) = 4
        /\ \A i \in 1..4 : probe.out[i] = probe.value

\* C15: load_and_run of A9 05 AA E8 00 (LDA #$05; TAX; INX; BRK), run to
\* its halt, leaves A = 5, X = 6, Zero clear and Negative clear.
C15_LoadAndRun ==
    halted = "brk" =>
        /\ register_a = 5 /\ register_x = 6
        /\ ~Contains(status, ZERO) /\ ~Contains(status, NEGATIVE)

\* C16: Cartridge::new returns Err and no Cartridge when the first four
\* bytes are not 4E 45 53 1A ("File is not in iNES file format") or when
\* bits 2-3 of header byte 7 are nonzero ("NES2.0 format is not supported",
\* when the identifier is right); either way no byte beyond the 16-byte
\* header has been read, and the host has no machine.
C16_Rejected ==
    probe.op = "cartridge" =>
        /\ (probe.raw.len >= 4 /\ SubSeq(probe.raw.header, 1, 4) # << 78, 69, 83, 26 >>)
              => /\ probe.result.result = "Err"
                 /\ probe.result.message = "File is not in iNES file format"
        /\ (/\ probe.raw.len >= 8
            /\ SubSeq(probe.raw.header, 1, 4) = << 78, 69, 83, 26 >>
            /\ (probe.raw.header[8] \div 4) % 4 # 0)
              => /\ probe.result.result = "Err"
                 /\ probe.result.message = "NES2.0 format is not supported"
        /\ probe.result.result = "Err" => (probe.result.read <= 16 /\ halted = "panic")

\* a whole NES 2.0 file with a trainer, PRG and CHR pages, rejected after
\* eight bytes
C16_Witness ==
    /\ probe.op = "cartridge" /\ probe.raw.len = 41488
    /\ probe.raw.header[8] = 8 /\ probe.raw.header[7] = 4
    /\ probe.result.message = "NES2.0 format is not supported"
    /\ probe.result.read = 8 /\ halted = "panic"

\* C17: with the address latch expecting the high byte, two writes h then
\* l to 0x2006 leave the internal address at (h << 8 | l) masked to 14
\* bits; a read of the status register leaves the latch expecting the
\* high byte again.
C17_TwoWritesCompose ==
    /\ (/\ probe.op = "reg_write" /\ probe.addr = 8198
        /\ ~probe.before.write_latch
        /\ probe.prev.op = "reg_write" /\ probe.prev.addr = 8198
        /\ probe.prev.latch)
          => addr_hi * 256 + addr_lo
                = (probe.prev.value * 256 + probe.value) % 16384
    /\ (probe.op = "reg_read" /\ probe.addr = 8194) => write_latch

\* C18: in every reachable state the address held by the PPU address
\* register is in 0x0000..0x3FFF, and after an access to the data register
\* (which increments it by 1 or by 32) it is the incremented value AND
\* 0x3FFF.
C18_AddrWithin14Bits ==
    /\ addr_hi * 256 + addr_lo <= 16383
    /\ (probe.addr = 8199 /\ probe.op \in {"reg_write", "reg_read"} /\ halted = "no")
          => addr_hi * 256 + addr_lo
                = (probe.before.addr
                      + (IF Contains(probe.before.controller, VRAM_ADD_INCREMENT)
                         THEN 32 ELSE 1)) % 16384

\* C19: a read of the status register returns the status bits as they
\* were before the read; afterwards the vblank bit is clear, the address
\* latch expects the high byte, the scroll latch expects X, and the other
\* status bits and the interrupt-pending flag are as before.
C19_ReadStatus ==
    (probe.op = "reg_read" /\ probe.addr = 8194 /\ last = "host") =>
        /\ probe.value = probe.before.ppu_status
        /\ ppu_status = BitAnd(probe.before.ppu_status, 127)
        /\ write_latch
        /\ ~scroll_latch
        /\ nmi_interrupt = probe.before.nmi_interrupt

\* the status register read in vblank, with the interrupt pending and
\* the address latch half way
C19_Witness ==
    /\ probe.op = "reg_read" /\ probe.addr = 8194 /\ last = "host"
    /\ probe.value = 128 /\ ppu_status = 0
    /\ ~probe.before.write_latch /\ write_latch
    /\ probe.before.nmi_interrupt /\ nmi_interrupt

\* C20: a write of the control register raises the interrupt-pending flag
\* exactly when the vblank bit is set and NMI-enable goes from 0 before
\* the write to 1 after it; otherwise the flag is left as it was.
C20_ControllerEdge ==
    (probe.op = "reg_write" /\ probe.addr = 8192 /\ last = "host") =>
        /\ controller = probe.value
        /\ nmi_interrupt =
              (\/ probe.before.nmi_interrupt
               \/ /\ Contains(probe.before.ppu_status, VBLANK_STARTED)
                  /\ ~Contains(probe.before.controller, GENERATE_NMI)
                  /\ Contains(probe.value, GENERATE_NMI))

\* NMI enabled in vblank with no interrupt pending: the write raises it
C20_Witness ==
    /\ probe.op = "reg_write" /\ probe.addr = 8192 /\ last = "host"
    /\ probe.value = 128 /\ probe.before.controller = 0
    /\ probe.before.ppu_status = 128
    /\ ~probe.before.nmi_interrupt /\ nmi_interrupt

\* C21: after a status read, two writes a then b to the scroll register
\* leave scroll_x = a and scroll_y = b.
C21_ScrollXThenY ==
    (probe.op = "set_scroll" /\ halted = "no" /\ last = "host") =>
        /\ scroll_x = probe.value[1]
        /\ scroll_y = probe.value[2]

\* the byte the PPU holds at a pattern or nametable address
ByteAtPpu(a) ==
    IF a < 8192
    THEN (IF has_chr_ram THEN ArrGet(chr_ram, a) ELSE ArrGet(chr_rom, a))
    ELSE ArrGet(vram, MirrorVramAddr(St, a))

\* the step of the address register selected by the control register
PortStep(ctrl) == IF Contains(ctrl, VRAM_ADD_INCREMENT) THEN 32 ELSE 1

\* C22: a data-port read at a pattern or nametable address returns the
\* read buffer as the previous read left it and refills the buffer with
\* the byte at the address read, so a read that follows a buffered read
\* returns the byte that read addressed; every data-port read or write
\* advances the address by 1, or by 32 with the increment bit set.
C22_BufferedRead ==
    (last = "host" /\ halted = "no") =>
        /\ (probe.op = "data_read" /\ probe.before.addr < 12288) =>
              /\ probe.value = probe.before.buffer
              /\ internal_data_buffer = ByteAtPpu(probe.before.addr)
              /\ (probe.prev.op = "data_read" /\ probe.prev.addr < 12288)
                    => probe.value = ByteAtPpu(probe.prev.addr)
        /\ probe.op \in {"data_read", "data_write"} =>
              addr_hi * 256 + addr_lo
                 = probe.before.addr + PortStep(probe.before.controller)

\* the second of two reads in a row in pattern memory, stepping by 32:
\* it returns the byte at 0x0000 and buffers the byte at 0x0020
C22_Witness ==
    /\ probe.op = "data_read" /\ probe.prev.op = "data_read"
    /\ probe.prev.addr = 0 /\ probe.before.addr = 32
    /\ probe.value = 65 /\ internal_data_buffer = 97
    /\ addr_lo = 64 /\ halted = "no" /\ last = "host"

\* the palette entry a palette address selects: 0x10, 0x14, 0x18 and 0x1C
\* are 0x00, 0x04, 0x08 and 0x0C
PaletteEntry(a) ==
    IF (a - 16128) \in {16, 20, 24, 28} THEN a - 16128 - 16 ELSE a - 16128

C24_MirrorFold ==
    probe.op = "mirror" =>
        /\ probe.out >= 0 /\ probe.out < 2048
        /\ probe.out % 1024 = probe.addr % 1024
        /\ mirroring = "Horizontal" =>
              probe.out \div 1024 = ((probe.addr - 8192) \div 1024) \div 2
        /\ mirroring = "Vertical" =>
              probe.out \div 1024 = ((probe.addr - 8192) \div 1024) % 2

\* C25: after the strobe is written high then low, the k-th read of the
\* input latch returns button k of A, B, Select, Start, Up, Down, Left,
\* Right (bit k-1 of the button state) and moves the cursor on by one;
\* every read after the 8th returns 1.
C25_ShiftOrder ==
    (probe.op = "pad_read" /\ probe.since >= 1) =>
        /\ probe.value =
              IF probe.since <= 8
              THEN (probe.before.button_status \div (2 ^ (probe.since - 1))) % 2
              ELSE 1
        /\ button_index = IF probe.since <= 8 THEN probe.since ELSE 8

\* the 4th read returns Start (pressed), with A and Right not pressed
C25_Witness ==
    /\ probe.op = "pad_read" /\ probe.since = 4
    /\ probe.before.button_status = 8 /\ probe.value = 1
    /\ button_index = 4

\* a 9th read, with no button pressed, returns 1
PastEighthRead ==
    /\ probe.op = "pad_read" /\ probe.since = 9
    /\ probe.before.button_status = 0 /\ probe.value = 1

\* C26: a write with bit 0 set puts the read cursor at 0, and while the
\* strobe stays high every read leaves it at 0 and returns the state of
\* button A.
C26_StrobeHigh ==
    /\ (probe.op = "pad_write" /\ probe.value % 2 = 1) => button_index = 0
    /\ (probe.op = "pad_read" /\ probe.high) =>
          /\ button_index = 0
          /\ probe.value = probe.before.button_status % 2

\* the strobe written high after three reads had moved the cursor
C26_Witness ==
    /\ probe.op = "pad_write" /\ probe.value = 255
    /\ probe.before.button_index = 3 /\ button_index = 0 /\ strobe

\* the byte a bus read of working RAM, PRG RAM or PRG ROM returns; the
\* unmapped addresses in between read as 0
BusByte(a) ==
    IF a < 8192 THEN ArrGet(cpu_wram, a % 2048)
    ELSE IF a \in 24576..32767 THEN ArrGet(prg_ram, a - 24576)
    ELSE IF a >= 32768 THEN ArrGet(prg_rom, (a - 32768) % prg_rom_len)
    ELSE 0

\* sprite memory holds the 256 bytes of the page from OAMADDR on, round
\* the end of the array, and OAMADDR and the cycle total are as before
Transferred ==
    /\ probe.ok
    /\ \A i \in 0..255 :
          ArrGet(oam_data, (probe.oam_addr + i) % 256)
             = BusByte(probe.value * 256 + i)
    /\ oam_addr = probe.oam_addr
    /\ cpu_ticks = probe.cpu_ticks

\* C27: a write of page P to 0x4014 copies the 256 bytes at (P << 8) + i
\* into sprite memory at (oam_addr + i) mod 256, at once and with no bus
\* cycles, for every page outside the register pages 0x20..0x40.
C27_OamDma ==
    (probe.op = "dma" /\ probe.value \notin 32..64) => Transferred

\* page 2 transferred with OAMADDR at 255: the byte at 0x02FF lands at 254
C27_Witness ==
    /\ probe.op = "dma" /\ probe.value = 2 /\ probe.oam_addr = 255
    /\ ArrGet(cpu_wram, 767) = 34 /\ ArrGet(oam_data, 254) = 34
    /\ probe.ok /\ halted = "no"

\* C27 as stated: the transfer completes for every page value P.
C27_AsStated ==
    probe.op = "dma" => Transferred

\* C28: the iteration that fetches BRK returns from the run loop with no
\* interrupt sequence: work RAM (the stack included), SP, A, X, Y and
\* status are as they were before the fetch (after the entry of a pending
\* NMI, when one was taken at the head of the iteration), PC is the byte
\* after the BRK and not a vector's content, and the loop runs no further
\* iteration.
C28_BrkReturns ==
    [][ /\ (halted = "no" /\ halted' = "brk") =>
              /\ fetched' = 0
              /\ register_a' = register_a /\ register_x' = register_x
              /\ register_y' = register_y
              /\ program_counter' = (fetch_pc' + 1) % 65536
              /\ IF nmi_taken'
                 THEN /\ stack_pointer' = nmi_entry'.sp
                      /\ status' = nmi_entry'.status
                      /\ fetch_pc' = nmi_entry'.pc
                 ELSE /\ stack_pointer' = stack_pointer
                      /\ status' = status
                      /\ cpu_wram' = cpu_wram
                      /\ fetch_pc' = program_counter
        /\ halted = "brk" => steps' = steps ]_vars

\* BRK fetched as the second instruction at the top of the address space,
\* with the stack pointer at 0 and every flag of the register file set
C28_Witness ==
    /\ halted = "brk" /\ last = "brk" /\ fetched = 0 /\ steps = 2
    /\ stack_pointer = 0 /\ register_a = 128
    /\ ~nmi_taken

PpuRegister(a) == 8192 + (a % 8)

\* C29: a write to PRG-ROM space (0x8000..0xFFFF), a write to the PPU
\* status register or a mirror of it, and a read of a write-only register
\* (0x2000, 0x2001, 0x2003, 0x2005, 0x2006, their mirrors, 0x4014) each
\* stop the emulator.
C29_IllegalAccessFatal ==
    /\ (probe.op = "bus_write" /\ probe.addr >= 32768) =>
          (~probe.ok /\ halted = "panic")
    /\ (/\ probe.op = "bus_write" /\ probe.addr \in 8192..16383
        /\ PpuRegister(probe.addr) = 8194) =>
          (~probe.ok /\ halted = "panic")
    /\ (/\ probe.op = "bus_read"
        /\ \/ probe.addr = 16404
           \/ /\ probe.addr \in 8192..16383
              /\ PpuRegister(probe.addr) \in {8192, 8193, 8195, 8197, 8198}) =>
          (~probe.ok /\ halted = "panic")

\* C31: with no NMI pending, a call of run_once_with_callback executes one
\* instruction and returns: once it has executed an instruction it fetches
\* no further one, so the machine the caller sees is the one that single
\* instruction left.
C31_OneInstructionPerCall ==
    [][ (runner = "run_once" /\ halted = "no" /\ last = "instr"
            /\ ~nmi_taken /\ ~nmi_interrupt) =>
           /\ steps' = steps
           /\ program_counter' = program_counter ]_vars

\* ---- SpecJmp: JMP (indirect) through vectors in work RAM and PRG ROM,
\* at the end of a page and inside one

\* iterations run
JmpSteps == 1

\* 0x00FF, 0x02FF, 0x80FF and 0xFFFF end a page; 0x0280 and 0x8010 do not
JmpPointers == {255, 640, 767, 32784, 33023, 65535}
\* the byte at the vector
TargetLo == {0, 1, 52}
\* the byte after the vector
TargetHi == {0, 18}
\* the byte at the start of the vector's page
PageStartBytes == {0, 86}
\* the instruction in work RAM, in PRG ROM
JmpPCs == {1536, 49152}

InitJmp ==
    \E ptr \in JmpPointers, lo \in TargetLo, hi \in TargetHi,
       b0 \in PageStartBytes, pc0 \in JmpPCs, rn \in {"run", "run_once"} :
        Load(Poke(Poke(Poke(Poke(Poke(Poke(
                 [Fresh(EmptyArr, 32768, "Vertical") EXCEPT
                     !.program_counter = pc0],
                 ptr - (ptr % 256), b0), Wrap16(ptr + 1), hi), ptr, lo),
                 pc0, 108), pc0 + 1, ptr % 256), pc0 + 2, ptr \div 256),
             rn)

NextJmp == steps < JmpSteps /\ Step

SpecJmp == InitJmp /\ [][NextJmp]_vars

\* the operand word of the instruction fetched last
OperandWord == BusByte(Wrap16(fetch_pc + 1)) + 256 * BusByte(Wrap16(fetch_pc + 2))

SbcSteps == 1

InitSbc ==
    \E a \in 0..255, m \in 0..255, c \in BOOLEAN :
        Load(Poke(Poke([Fresh(EmptyArr, 32768, "Vertical") EXCEPT
                           !.register_a = a,
                           !.status = SetBit(STATUS_RESET, CARRY, c),
                           !.program_counter = 1536],
                       1536, 233), 1537, m),
             "run")

NextSbc == steps < SbcSteps /\ Step

SpecSbc == InitSbc /\ [][NextSbc]_vars

\* the operand byte of the immediate instruction about to be fetched
ImmediateOperand == BusByte(Wrap16(program_counter + 1))

\* Carry, Zero, Overflow and Negative
ArithmeticFlags(p) == BitAnd(p, CARRY + ZERO + OVERFLOW + NEGATIVE)

\* the step executed SBC #m and left the accumulator and the arithmetic
\* flags the add path leaves for the addend `data`
SbcAddsOperand(data) ==
    (fetched' = 233 /\ last' = "instr") =>
        /\ register_a' = AddToRegisterA(St, data).register_a
        /\ ArithmeticFlags(status') =
              ArithmeticFlags(AddToRegisterA(St, data).status)

\* C33 (as the code has it): SBC with operand M leaves the accumulator,
\* Carry, Overflow, Zero and Negative that the add path leaves when applied,
\* with the same carry-in, to the one's complement of M, 255 - M, for every
\* accumulator, operand and carry-in.
C33_SbcAddsOnesComplement == [][SbcAddsOperand(255 - ImmediateOperand)]_vars

\* SBC #$00: the add path adds 0xFF and the carry-in, leaving 0x80 with
\* Carry set
C33_Witness ==
    /\ fetched = 233 /\ last = "instr" /\ BusByte(fetch_pc + 1) = 0
    /\ register_a = 128 /\ Contains(status, CARRY) /\ Contains(status, NEGATIVE)

\* C33 as stated: the addend is the one's complement plus one, (256 - M) mod
\* 256.
C33_AsStated == [][SbcAddsOperand((256 - ImmediateOperand) % 256)]_vars

\* the two canonical operations an undocumented opcode is made of
CompositeParts ==
    [ DCP |-> << "DEC", "CMP" >>, ISB |-> << "INC", "SBC" >>,
      SLO |-> << "ASL", "ORA" >>, RLA |-> << "ROL", "AND" >>,
      SRE |-> << "LSR", "EOR" >>, RRA |-> << "ROR", "ADC" >>,
      LAX |-> << "LDA", "TAX" >> ]

\* the arms of the two canonical operations, one after the other, each
\* resolving the operand at the program counter with the mode `mode`
BackToBack(s, parts, mode) ==
    Execute(Execute(s, parts[1], mode), parts[2], mode)

\* the variables' registers, flags and memories are those of `r`
SameRegistersFlagsMemory(r) ==
    /\ register_a' = r.register_a /\ register_x' = r.register_x
    /\ register_y' = r.register_y /\ stack_pointer' = r.stack_pointer
    /\ status' = r.status
    /\ cpu_wram' = r.cpu_wram /\ prg_ram' = r.prg_ram
    /\ vram' = r.vram /\ palette_table' = r.palette_table
    /\ oam_data' = r.oam_data /\ chr_ram' = r.chr_ram

\* the step executed the composite opcode `code` to its end
CompositeExecuted(code) ==
    /\ fetched' = code /\ ~nmi_interrupt /\ last' = "instr"
    /\ HasOpcode(code) /\ Lookup(code).op \in DOMAIN CompositeParts

\* C34: an undocumented composite opcode leaves the registers, flags and
\* memory that its two canonical operations, executed back to back on the
\* same operand, leave: DCP = DEC then CMP, ISB = INC then SBC, SLO = ASL
\* then ORA, RLA = ROL then AND, SRE = LSR then EOR, RRA = ROR then ADC,
\* LAX = LDA then TAX.
C34_CompositeIsTwoOperations ==
    [][ \A code \in Codes :
          CompositeExecuted(code) =>
             SameRegistersFlagsMemory(
                BackToBack(Fetch(St).s, CompositeParts[Lookup(code).op],
                           Lookup(code).addressing_mode)) ]_vars

\* DCP $10 with A = 0x80 and 0xFF in the cell: the cell is decremented to
\* 0xFE and the comparison clears Carry
C34_Witness ==
    /\ fetched = 199 /\ last = "instr" /\ steps = 1
    /\ BusByte(16) = 254 /\ register_a = 128
    /\ ~Contains(status, CARRY) /\ Contains(status, NEGATIVE)

\* the PPU's position in its frame of 262 scanlines of 341 cycles
FramePosition(line, cyc) == line * SCANLINE_CYCLES + cyc

\* C35: under the ticks the CPU's steps drive, the scanline counter stays in
\* 0..261 and the cycle counter in 0..340, and the ticks of a step add their
\* cycles to the cycle counter, each 341 of them carried into the scanline
\* counter, which restarts at 0 after 261.
C35_CountersInRange ==
    [][ /\ scanline \in 0..261 /\ cycles \in 0..340
        /\ scanline' \in 0..261 /\ cycles' \in 0..340
        /\ FramePosition(scanline', cycles') =
              (FramePosition(scanline, cycles) + (fed' - fed))
                 % (SCANLINE_CYCLES * FRAME_SCANLINES) ]_vars

\* the step whose tick took the PPU from scanline 261 back to scanline 0
C35_Witness ==
    /\ frames = 1 /\ scanline = 0 /\ cycles < 24 /\ last = "instr"

\* ---- SpecStack: the instructions that push and pull, from every stack
\* pointer

\* iterations run
StackSteps == 1

\* PHP, JSR, PLP, RTI, PHA, RTS, PLA
StackCodes == {8, 32, 40, 64, 72, 96, 104}
StackAccumulators == {0, 165}

\* the byte the stack page holds at `addr` before the run
PageByte(addr) == ((addr - STACK) * 3 + 1) % 256

\* the stack page, and one marked byte on either side of it
StackPage ==
    [j \in {k \in STACK..(STACK + 255) : PageByte(k) # 0} |-> PageByte(j)]
        @@ [j \in {255, 512} |-> 99]

InitStack ==
    \E sp \in 0..255, code \in StackCodes, a \in StackAccumulators :
        Load(Poke(Poke([Fresh(EmptyArr, 32768, "Vertical") EXCEPT
                           !.register_a = a, !.stack_pointer = sp,
                           !.program_counter = 1536,
                           !.cpu_wram = StackPage],
                       1536, code), 1538, 7),
             "run")

NextStack == steps < StackSteps /\ Step

SpecStack == InitStack /\ [][NextStack]_vars

\* the i-th cell above the stack pointer, i-th below for negative i, inside
\* the stack page
StackCell(i) == STACK + ((stack_pointer + 256 + i) % 256)

\* the bytes an instruction pushes, pulls
Pushes(code) == CASE code \in {8, 72} -> 1 [] code = 32 -> 2 [] OTHER -> 0
Pulls(code) == CASE code \in {40, 104} -> 1 [] code = 96 -> 2
                 [] code = 64 -> 3 [] OTHER -> 0

\* the step executed the stack instruction `code`
StackExecuted(code) == fetched' = code /\ last' = "instr" /\ ~nmi_interrupt

\* C36: every push writes at 0x0100 + SP and then decrements SP modulo 256,
\* every pull increments SP modulo 256 and then reads 0x0100 + SP, so from
\* any SP the bytes accessed lie in 0x0100..0x01FF and SP wraps inside the
\* page.
C36_StackPage ==
    [][ \A code \in StackCodes :
          StackExecuted(code) =>
            /\ stack_pointer' =
                  (stack_pointer + 256 + Pulls(code) - Pushes(code)) % 256
            /\ \A j \in (DOMAIN cpu_wram) \cup (DOMAIN cpu_wram') :
                  ArrGet(cpu_wram', j) # ArrGet(cpu_wram, j) =>
                     \E i \in 1..Pushes(code) : j = StackCell(1 - i)
            /\ code = 72 => ArrGet(cpu_wram', StackCell(0)) = register_a
            /\ code = 8 => ArrGet(cpu_wram', StackCell(0)) = BitOr(status, 48)
            /\ code = 32 =>
                  /\ ArrGet(cpu_wram', StackCell(0)) = 6
                  /\ ArrGet(cpu_wram', StackCell(0 - 1)) = 2
            /\ code = 104 => register_a' = ArrGet(cpu_wram, StackCell(1))
            /\ code = 40 =>
                  BitAnd(status', 207) = BitAnd(ArrGet(cpu_wram, StackCell(1)), 207)
            /\ code = 96 =>
                  program_counter' =
                     (ArrGet(cpu_wram, StackCell(1))
                        + 256 * ArrGet(cpu_wram, StackCell(2)) + 1) % 65536
            /\ code = 64 =>
                  /\ BitAnd(status', 207) =
                        BitAnd(ArrGet(cpu_wram, StackCell(1)), 207)
                  /\ program_counter' =
                        ArrGet(cpu_wram, StackCell(2))
                           + 256 * ArrGet(cpu_wram, StackCell(3)) ]_vars

\* PLA with SP = 0xFF: SP becomes 0x00 and the byte comes from 0x0100
C36_Witness ==
    /\ fetched = 104 /\ last = "instr" /\ stack_pointer = 0
    /\ register_a = PageByte(STACK) /\ ArrGet(cpu_wram, 512) = 99

\* PHA with SP = 0x00: the byte goes to 0x0100 and SP becomes 0xFF
PushWrapped ==
    /\ fetched = 72 /\ last = "instr" /\ stack_pointer = 255
    /\ ArrGet(cpu_wram, STACK) = 165 /\ register_a = 165

\* ---- SpecNmi: an interrupt pending in vblank, taken between two
\* instructions, and a handler that returns with RTI

\* iterations run
NmiSteps == 3

\* RTI; NOP, RTI
NmiHandlers == { << 64 >>, << 234, 64 >> }
\* the flags when the interrupt is taken: interrupt-disable set and clear
NmiFlags == {36, 32, 231, 195}
NmiStackPointers == {253, 128, 2, 1, 0}
\* 0x00FF, 0x0612, 0x8000
NmiPCs == {255, 1554, 32768}

\* a 32K PRG ROM with the handler at 0x9000 and the NMI vector pointing at it
HandlerImage(h) == Image(4096, h) @@ Image(32762, << 0, 144 >>)

InitNmi ==
    \E h \in NmiHandlers, p \in NmiFlags, sp \in NmiStackPointers,
       pc0 \in NmiPCs, rn \in {"run", "run_once"} :
        Load([Fresh(HandlerImage(h), 32768, "Horizontal") EXCEPT
                 !.status = p, !.stack_pointer = sp, !.program_counter = pc0,
                 !.controller = GENERATE_NMI, !.ppu_status = VBLANK_STARTED,
                 !.scanline = VBLANK_SCANLINE, !.cycles = 0,
                 !.nmi_interrupt = TRUE, !.raised = 1, !.raised_tick = 1,
                 !.rises = 1],
             rn)

NextNmi == steps < NmiSteps /\ Step

SpecNmi == InitNmi /\ [][NextNmi]_vars

\* the three cells the latest NMI entry wrote hold what it wrote, and the
\* stack pointer is where the entry left it
EntryFrameIntact ==
    /\ stack_pointer = nmi_entry.sp
    /\ ArrGet(cpu_wram, STACK + nmi_entry.sp0) = nmi_entry.cell_hi
    /\ ArrGet(cpu_wram, STACK + Wrap8(nmi_entry.sp0 + 255)) = nmi_entry.cell_lo
    /\ ArrGet(cpu_wram, STACK + Wrap8(nmi_entry.sp0 + 254)) = nmi_entry.cell_flags

\* every flag but Break and Break2
FlagsButBreak(p) == BitAnd(p, 255 - BREAK - BREAK2)

\* C37: an RTI executed on the stack frame an NMI entry left, the frame's
\* bytes untouched, puts PC back at the address the interrupt was taken at
\* and SP at its value before the entry, and gives every flag but Break and
\* Break2 the value it had before the entry, interrupt-disable included.
C37_NmiRtiRoundTrip ==
    [][ (/\ fetched' = 64 /\ last' = "instr"
         /\ nmi_entry'.sp # nmi_entry'.sp0
         /\ nmi_taken' \/ EntryFrameIntact) =>
            /\ program_counter' = nmi_entry'.pc0
            /\ stack_pointer' = nmi_entry'.sp0
            /\ FlagsButBreak(status') = FlagsButBreak(nmi_entry'.status0) ]_vars

\* interrupted at 0x0612 with SP = 0x01 and interrupt-disable clear: back
\* there, interrupt-disable clear again
C37_Witness ==
    /\ fetched = 64 /\ last = "instr" /\ nmi_entry.sp # nmi_entry.sp0
    /\ nmi_entry.pc0 = 1554 /\ program_counter = 1554
    /\ nmi_entry.sp0 = 1 /\ stack_pointer = 1
    /\ ~Contains(nmi_entry.status0, INTERRUPT_DISABLE)
    /\ Contains(nmi_entry.status, INTERRUPT_DISABLE)
    /\ ~Contains(status, INTERRUPT_DISABLE)

\* ---- SpecLatch: the data port behind every kind of address the address
\* register can hold, on each mirroring mode

\* accesses the host makes
MaxLatch == 3

\* pattern memory; the four nametables and their last byte; the unused
\* range 0x3000..0x3EFF; the palette, its aliases and the rest of
\* 0x3F00..0x3FFF; 0x4000, what the register holds after 0x40 is written
LatchAddrs ==
    {0, 8191, 8192, 9216, 10240, 11264, 12287, 12288, 16127,
     16128, 16144, 16159, 16160, 16383, 16384}
LatchBytes == {7}

InitLatch ==
    \E mirr \in MirroringModes, ram \in BOOLEAN :
        Load([Fresh(EmptyArr, 32768, mirr)
                 EXCEPT !.chr_rom = IF ram THEN EmptyArr ELSE ChrImage,
                        !.has_chr_ram = ram], "run")

\* the host points the address register at `a`: a status read, then the
\* high and the low byte written to 0x2006
LatchSet ==
    /\ halted = "no"
    /\ steps < MaxLatch
    /\ \E a \in LatchAddrs :
          /\ Outcome(StatusThenTwoWrites(St, 8198, a \div 256, a % 256))
          /\ probe' = [op |-> "latch_set", addr |-> a, ok |-> TRUE]
    /\ last' = "host"
    /\ steps' = steps + 1
    /\ UNCHANGED << runner, nmi_taken, nmi_entry, fetched, fetch_pc >>

\* bus.mem_write(0x2007, value)
LatchWrite ==
    /\ halted = "no"
    /\ steps < MaxLatch
    /\ \E v \in LatchBytes :
          /\ Outcome(MemWrite(St, 8199, v))
          /\ probe' = [op |-> "latch_write", addr |-> PpuAddrGet(St),
                       ok |-> ~MemWrite(St, 8199, v).panic]
    /\ last' = "host"
    /\ steps' = steps + 1
    /\ UNCHANGED << runner, nmi_taken, nmi_entry, fetched, fetch_pc >>

\* bus.mem_read(0x2007)
LatchRead ==
    /\ halted = "no"
    /\ steps < MaxLatch
    /\ Outcome(MemReadSt(St, 8199))
    /\ probe' = [op |-> "latch_read", addr |-> PpuAddrGet(St),
                 ok |-> ~MemReadSt(St, 8199).panic]
    /\ last' = "host"
    /\ steps' = steps + 1
    /\ UNCHANGED << runner, nmi_taken, nmi_entry, fetched, fetch_pc >>

NextLatch == LatchSet \/ LatchWrite \/ LatchRead

SpecLatch == InitLatch /\ [][NextLatch]_vars

\* C38: whatever the address register holds and whatever the mirroring
\* mode, a read or a write of the data port completes: no access is fatal,
\* none indexes outside CHR memory, the 2048-byte VRAM or the 32-byte
\* palette table.
C38_DataPortNeverFatal ==
    probe.op \in {"latch_write", "latch_read"} =>
        (probe.ok /\ halted # "panic")

\* the accesses that do complete: pattern memory, the nametables the VRAM
\* backs, and the 32 palette entries
PortCompletes ==
    probe.op \in {"latch_write", "latch_read"} =>
        (probe.ok <=>
            \/ probe.addr \in 0..8191
            \/ /\ probe.addr \in 8192..12287
               /\ mirroring = "FourScreen" => probe.addr < 8192 + VRAM_SIZE
            \/ probe.addr \in 16128..(16128 + PALETTE_TABLE_SIZE - 1))

\* ---- SpecJsr: a JSR to a subroutine that returns at once

\* iterations run
JsrSteps == 2

\* 0x0600; 0x06FE, whose return address is in the next page; 0x80FF in PRG
\* ROM; 0xFFFD, the last three bytes of the address space; 0x01FB, in the
\* stack page
JsrPCs == {1536, 1790, 33023, 65533, 507}
\* the subroutine, an RTS: at 0x0300, at 0x8200
JsrTargets == {768, 33280}
JsrStackPointers == {253, 1, 0}

InitJsr ==
    \E p \in JsrPCs, target \in JsrTargets, sp \in JsrStackPointers,
       oc \in BOOLEAN :
        Load(Poke(Poke(Poke(Poke(
                 [Fresh(EmptyArr, 32768, "Vertical") EXCEPT
                     !.stack_pointer = sp, !.program_counter = p,
                     !.overflow_checks = oc],
                 target, 96),
                 p, 32), Wrap16(p + 1), target % 256),
                 Wrap16(p + 2), target \div 256),
             "run")

NextJsr == steps < JsrSteps /\ Step

SpecJsr == InitJsr /\ [][NextJsr]_vars

\* the address and the stack pointer the run started with; no interrupt is
\* taken in these runs, so the snapshot is the one made when it started
CallSite == nmi_entry.pc0
CallStackPointer == nmi_entry.sp0

\* JSR has pushed the address of its last byte, high byte first, and jumped
\* to its operand
JsrDone ==
    /\ halted = "no" /\ fetched = 32
    /\ program_counter \in JsrTargets
    /\ BusByte(Wrap16(CallSite + 1)) + 256 * BusByte(Wrap16(CallSite + 2))
          = program_counter
    /\ stack_pointer = (CallStackPointer + 254) % 256
    /\ ArrGet(cpu_wram, STACK + CallStackPointer) = Wrap16(CallSite + 2) \div 256
    /\ ArrGet(cpu_wram, STACK + ((CallStackPointer + 255) % 256))
          = Wrap16(CallSite + 2) % 256

\* RTS has come back to the instruction after the JSR with the stack
\* pointer as it was before it
RtsDone ==
    /\ halted = "no" /\ fetched = 96
    /\ program_counter = Wrap16(CallSite + 3)
    /\ stack_pointer = CallStackPointer

\* C39: JSR at p pushes p + 2, high byte then low byte, and jumps to its
\* operand; the RTS that follows with the stack untouched sets PC to p + 3
\* and SP to its value before the JSR.
C39_JsrRtsRoundTrip ==
    /\ steps = 1 => JsrDone
    /\ steps = 2 => RtsDone

\* the stack's two cells are not operand bytes of the JSR, and either the
\* build wraps on overflow or the JSR is not in the last three bytes
CallClearOfStack ==
    /\ \A i \in {1, 2}, j \in {0, 255} :
          Wrap16(CallSite + i) # STACK + ((CallStackPointer + j) % 256)
    /\ ~overflow_checks \/ CallSite + 3 <= 65535

\* the round trip wherever the call is clear of the stack
RoundTripClearOfStack == CallClearOfStack => C39_JsrRtsRoundTrip

\* ---- SpecAlias: the two-operation opcodes on operands that lie on the
\* bytes their address is resolved from, and on operands that do not

\* iterations run
AliasSteps == 1

\* the table entries of DCP, ISB, SLO, RLA, SRE and RRA with the modes
\* (zp,X), (zp),Y, Absolute and ZeroPage
AliasCodes ==
    { c \in Codes :
        /\ HasOpcode(c) /\ Lookup(c).op \in TwoStepOps
        /\ Lookup(c).addressing_mode \in
              {"Indirect_X", "Indirect_Y", "Absolute", "ZeroPage"} }
AliasAccumulators == {1, 128}

\* X = Y = 0, 0x41 at 0x0080 and 0x0200, and the instruction:
\* (zp,X) and (zp),Y at 0x0600 with operand 0x10, the pointer at 0x0010
\*     being 0x0010 itself (on the operand) or 0x0200;
\* Absolute at 0x0600 with operand 0x0601, its own low operand byte, or
\*     0x0200;
\* ZeroPage at 0x0010 with operand 0x11, its own operand byte, or 0x80
AliasMachine(code, mode, a, alias) ==
    CASE mode \in {"Indirect_X", "Indirect_Y"} ->
            Poke(Poke(Poke(Poke(
                [Fresh(EmptyArr, 32768, "Vertical") EXCEPT
                    !.register_a = a, !.program_counter = 1536],
                1536, code), 1537, 16),
                16, IF alias THEN 16 ELSE 0), 17, IF alias THEN 0 ELSE 2)
      [] mode = "Absolute" ->
            Poke(Poke(Poke(
                [Fresh(EmptyArr, 32768, "Vertical") EXCEPT
                    !.register_a = a, !.program_counter = 1536],
                1536, code), 1537, IF alias THEN 1 ELSE 0),
                1538, IF alias THEN 6 ELSE 2)
      [] OTHER ->
            Poke(Poke(
                [Fresh(EmptyArr, 32768, "Vertical") EXCEPT
                    !.register_a = a, !.program_counter = 16],
                16, code), 17, IF alias THEN 17 ELSE 128)

InitAlias ==
    \E code \in AliasCodes, a \in AliasAccumulators, alias \in BOOLEAN :
        Load(Poke(Poke(AliasMachine(code, Lookup(code).addressing_mode,
                                    a, alias),
                       128, 65), 512, 65),
             "run")

NextAlias == steps < AliasSteps /\ Step

SpecAlias == InitAlias /\ [][NextAlias]_vars

\* the operand of the second operation read at the address `a` the first
\* operation resolved, in the state `t` the first operation left
OperandAt(a, t) ==
    ReadOperand([addr |-> a.addr, page_cross |-> a.page_cross, s |-> t])

\* the arm of `op` with its second operation reading the address its first
\* operation resolved
SecondAtFirstAddress(s, op, mode, a) ==
    ExecuteSecond(op, OperandAt(a, ExecuteResolved(s, op, mode, a)))

\* the step executed the two-operation opcode `code` to its end
TwoStepExecuted(code) ==
    /\ fetched' = code /\ ~nmi_interrupt /\ last' = "instr"
    /\ HasOpcode(code) /\ Lookup(code).op \in TwoStepOps

\* the step left what the second operation leaves when it reads the address
\* the first one wrote
ReadsWhereWritten(code) ==
    SameRegistersFlagsMemory(
        SecondAtFirstAddress(Fetch(St).s, Lookup(code).op,
                             Lookup(code).addressing_mode,
                             GetOperandAddress(Fetch(St).s,
                                               Lookup(code).addressing_mode)))

\* C40: in DCP, ISB, SLO, RLA, SRE and RRA the second operation reads the
\* effective address the first operation wrote, in every addressing mode
\* and for every memory content, also when that write lands on the
\* zero-page pointer or on the operand bytes the address is resolved from.
C40_SecondReadsFirstAddress ==
    [][ \A code \in Codes : TwoStepExecuted(code) => ReadsWhereWritten(code) ]_vars

\* the address the instruction at the program counter resolves is one of
\* the bytes it is resolved from: an operand byte or a pointer byte
OperandOnOwnBytes ==
    \/ program_counter = 16 /\ ArrGet(cpu_wram, 17) = 17
    \/ program_counter = 1536 /\ ArrGet(cpu_wram, 1537) = 1
    \/ program_counter = 1536 /\ ArrGet(cpu_wram, 16) = 16

\* the same wherever the operand is clear of the bytes that resolve it
ReadsWhereWrittenClear ==
    [][ \A code \in Codes :
          (TwoStepExecuted(code) /\ ~OperandOnOwnBytes) =>
              ReadsWhereWritten(code) ]_vars

====
